---- MODULE Spec2Model ----
(***************************************************************************)
(* Model of the traffic-law chat backend (hukum_ai/backend/main.py):       *)
(* the TTL cache, the per-client rate limiter, vector retrieval with its   *)
(* result cache, the index rebuild, the generation fallback chain and the  *)
(* chat request handlers; and of the index builder (build_index.py): the   *)
(* embedding call with retry and the resumable build.                      *)
(*                                                                         *)
(* Time is the value of time.time() in whole seconds (variable now).       *)
(* A Python dict is a sequence of entries in insertion order, because the  *)
(* eviction loop of TTLCache.set depends on the dict's iteration order.    *)
(***************************************************************************)
EXTENDS Integers, Sequences, FiniteSets, TLC

VARIABLES
    now,        \* time.time(), in seconds
    cache,      \* TTLCache.data of the cache instance under test
    cop,        \* the last TTLCache call: its arguments, clock and result
    RATE_STATE, \* client ip -> (window start, count)
    accepted,   \* client ip -> times of the requests _rate_limit_ok accepted
    heap,       \* the list objects alive: object id -> list of documents
    INDEX,      \* the global INDEX: the id of the list object it refers to
    INDEX_FILE, \* the documents persisted at INDEX_PATH
    art_status, \* LawArticle.status of each article of the database
    GEMINI_ENABLED, \* whether the provider is configured
    EMBED_CACHE,\* EMBED_CACHE.data
    DOCS_CACHE, \* DOCS_CACHE.data
    sop,        \* the last retrieval operation: its arguments and result
    rebuilds,   \* the number of index rebuilds since startup
    GEN_MODEL,  \* the configured primary generation model
    FALLBACK_MODELS,    \* the configured fallback models, in order
    gen,        \* the last generate_answer call: provider calls and result
    srch,       \* the thread running search_top_k: its position and locals
    rb,         \* the thread running rebuild_index_from_db: position, locals
    published,  \* the contents of every list INDEX has referred to
    sessions,   \* the ChatSession table: the row of id i is at position i
    messages,   \* the ChatMessage table, in the order of the ids
    meta,       \* the SystemMeta rows "session_pref:<id>": id -> preferences
    PREF_CACHE, \* PREF_CACHE.data
    INTENT_MODEL,   \* whether the trained intent model was loaded
    chat_req,   \* the last chat request: its endpoint, client and question
    chat_resp,  \* the response to the last chat request
    chat_count, \* the number of chat requests so far
    retry,      \* the running call of build_index.embed_text: locals, events
    build,      \* the running build_index.main: its locals and the index file
    icall,     \* the last predict_intent call: its arguments and result
    hist,      \* the last replay of the messages of a session
    users,      \* the User table: id, email, hashed_password
    reset_tokens, \* the PasswordResetToken table
    token_seq,  \* the number of reset tokens issued so far
    rst,        \* each reset_password request in progress: its locals
    reset_log  \* the reset_password requests answered, in order

cacheVars == <<cache, cop>>
rateVars == <<RATE_STATE, accepted>>
indexVars == <<heap, INDEX, INDEX_FILE, art_status, GEMINI_ENABLED>>
searchVars == <<EMBED_CACHE, DOCS_CACHE, sop, rebuilds>>
genVars == <<GEN_MODEL, FALLBACK_MODELS, gen>>
threadVars == <<srch, rb, published>>
chatVars == <<sessions, messages, meta, PREF_CACHE, INTENT_MODEL, chat_req,
              chat_resp, chat_count>>
buildVars == <<retry, build>>
intentVars == <<icall>>
histVars == <<hist>>
authVars == <<users, reset_tokens, token_seq, rst, reset_log>>

\* what each part of the model leaves alone
outsideCache == <<rateVars, indexVars, searchVars, genVars, threadVars,
                  chatVars, buildVars,
                  intentVars,
                  histVars,
                  authVars>>
outsideRate == <<cacheVars, indexVars, searchVars, genVars, threadVars,
                 chatVars, buildVars,
                  intentVars,
                  histVars,
                  authVars>>
outsideSearch == <<cacheVars, rateVars, genVars, threadVars, chatVars,
                   buildVars,
                  intentVars,
                  histVars,
                  authVars>>
outsideGen == <<now, cacheVars, rateVars, indexVars, searchVars, threadVars,
                chatVars, buildVars,
                  intentVars,
                  histVars,
                  authVars>>
outsideThreads == <<cacheVars, rateVars, genVars, chatVars, buildVars,
                  intentVars,
                  histVars,
                  authVars>>
outsideChat == <<now, cacheVars, accepted, indexVars, sop, rebuilds, genVars,
                 threadVars, INTENT_MODEL, buildVars,
                  intentVars,
                  histVars,
                  authVars>>
outsideBuild == <<now, cacheVars, rateVars, indexVars, searchVars, genVars,
                  threadVars, chatVars,
                  intentVars,
                  histVars,
                  authVars>>
outsideAuth == <<cacheVars, rateVars, indexVars, searchVars, genVars,
                 threadVars, chatVars, buildVars, intentVars, histVars>>

vars == <<now, cache, cop, RATE_STATE, accepted, heap, INDEX, INDEX_FILE,
          art_status, GEMINI_ENABLED, EMBED_CACHE, DOCS_CACHE, sop, rebuilds,
          GEN_MODEL, FALLBACK_MODELS, gen, srch, rb, published, sessions,
          messages, meta, PREF_CACHE, INTENT_MODEL, chat_req, chat_resp,
          chat_count, retry, build,
          icall,
          hist,
          users, reset_tokens, token_seq, rst, reset_log>>

-----------------------------------------------------------------------------
(* Bounds of the model *)

MaxClock == 4       \* the clock stops advancing here
CACHE_TTL == 2      \* ttl_seconds of the cache instance under test
CACHE_MAX == 2      \* max_items of the cache instance under test

ClockStep == 20     \* seconds between two instants at which requests arrive
MaxRateClock == 120 \* the request clock stops advancing here
MAX_REQUESTS_PER_MINUTE == 2    \* the configured per-client budget

WINDOW == 60        \* the window of _rate_limit_ok, in seconds

MaxSearchClock == 2 \* the clock of the retrieval model stops advancing here
DOCS_TTL == 1       \* ttl_seconds of DOCS_CACHE
DOCS_MAX == 2       \* max_items of DOCS_CACHE
EMBED_TTL == 4      \* ttl_seconds of EMBED_CACHE
EMBED_MAX == 3      \* max_items of EMBED_CACHE
MaxK == 2           \* the largest k a search is called with
MaxRebuilds == 1    \* the number of index rebuilds in a run
RAG_TOP_K == 2      \* the configured RAG_TOP_K
PREF_TTL == 4       \* ttl_seconds of PREF_CACHE
PREF_MAX == 2       \* max_items of PREF_CACHE
MaxChatRequests == 3    \* the number of chat requests in a run
MaxSessionId == 1       \* the largest session_id a request names
MaxStoreRequests == 2   \* the chat requests in a run whose store may fail
MaxResetClock == 2  \* the clock of the password resets stops advancing here
RESET_TTL == 1      \* the lifetime of a reset token, in ticks of that clock
MaxTokens == 2      \* the reset tokens issued at most
MaxResets == 3      \* the reset_password requests made at most
MaxRetries == 5         \* the largest max_retries embed_text is called with

KEY_PREFIX == 32    \* query_embedding[:32], the part of the query in the cache key
RAG_MIN_SCORE == 9  \* RAG_MIN_SCORE 0.3 in the unit of the scores (100 * 0.3^2)

Clients == {"ip1", "ip2"}
CacheKeys == {"k1", "k2", "k3"}
CacheVals == {"v1", "v2"}

-----------------------------------------------------------------------------
(* Helpers *)

Min(a, b) == IF a <= b THEN a ELSE b
Max(a, b) == IF a >= b THEN a ELSE b

Range(s) == {s[i] : i \in DOMAIN s}

\* the sequence s without its element at position i
RemoveAt(s, i) == [j \in 1..(Len(s) - 1) |-> IF j < i THEN s[j] ELSE s[j + 1]]

-----------------------------------------------------------------------------
(* Texts. A text is the sequence of its words, which stand one space apart; *)
(* the token " " is a run of further whitespace. The words are lower-case.  *)

IsSpace(w) == w = " "

RECURSIVE lstrip(_)
lstrip(t) == IF t # <<>> /\ IsSpace(Head(t)) THEN lstrip(Tail(t)) ELSE t

RECURSIVE rstrip(_)
rstrip(t) ==
    IF t # <<>> /\ IsSpace(t[Len(t)]) THEN rstrip(SubSeq(t, 1, Len(t) - 1))
    ELSE t

\* str.strip()
strip(t) == rstrip(lstrip(t))

\* _norm: strip, lower, and every run of whitespace made one space
_norm(t) == SelectSeq(t, LAMBDA w : ~IsSpace(w))

\* the keywords found inside a word of the questions, other than the word
\* itself: "gk" in "singkat", "panjang" in "perpanjang"
Parts(w) ==
    {w} \cup (CASE w = "singkat" -> {"gk"}
               [] w = "perpanjang" -> {"panjang"}
               [] OTHER -> {})

\* p in t for a phrase p: a one-word phrase is found inside a word, a longer
\* one is found as consecutive words
Contains(t, p) ==
    IF Len(p) = 1
    THEN \E i \in DOMAIN t : p[1] \in Parts(t[i])
    ELSE \E i \in 1..(Len(t) - Len(p) + 1) : SubSeq(t, i, i + Len(p) - 1) = p

\* any(p in t for p in phrases)
ContainsAny(t, phrases) == \E p \in phrases : Contains(t, p)

\* re.search(r"\bw\b", t)
HasWord(t, w) == \E i \in DOMAIN t : t[i] = w

-----------------------------------------------------------------------------
(* TTLCache: data maps key -> (expiry, value) *)

\* the result of a call that returns None
None == [some |-> FALSE, val |-> <<>>]
Some(v) == [some |-> TRUE, val |-> v]

\* positions of key in the dict (none or one)
DictPos(data, key) == {i \in DOMAIN data : data[i].key = key}

DictHas(data, key) == DictPos(data, key) # {}

DictItem(data, key) == data[CHOOSE i \in DictPos(data, key) : TRUE]

DictKeys(data) == {data[i].key : i \in DOMAIN data}

\* self.data.pop(key, None)
DictPop(data, key) ==
    IF DictHas(data, key)
    THEN RemoveAt(data, CHOOSE i \in DictPos(data, key) : TRUE)
    ELSE data

\* self.data[key] = (exp, val): an existing key keeps its position
DictStore(data, key, exp, val) ==
    IF DictHas(data, key)
    THEN [i \in DOMAIN data |->
            IF data[i].key = key THEN [key |-> key, exp |-> exp, val |-> val]
            ELSE data[i]]
    ELSE Append(data, [key |-> key, exp |-> exp, val |-> val])

\* TTLCache.get: the value and the dict it leaves (an expired entry is popped)
TTLCache_get(data, key, t) ==
    IF ~DictHas(data, key)
    THEN [data |-> data, ret |-> None]
    ELSE IF DictItem(data, key).exp < t
         THEN [data |-> DictPop(data, key), ret |-> None]
         ELSE [data |-> data, ret |-> Some(DictItem(data, key).val)]

\* the loop of TTLCache.set: the first entry, in iteration order, whose
\* expiry is the smallest
OldestPos(data) ==
    CHOOSE i \in DOMAIN data :
        /\ \A j \in DOMAIN data : data[i].exp <= data[j].exp
        /\ \A j \in DOMAIN data : (j < i) => data[j].exp > data[i].exp

\* a set that evicts the newest-expiring entry
TTLCache_evict_newest(data, max_items) ==
    IF Len(data) >= max_items /\ Len(data) > 0
    THEN RemoveAt(data, CHOOSE i \in DOMAIN data :
                            \A j \in DOMAIN data : data[i].exp >= data[j].exp)
    ELSE data

\* the eviction step of TTLCache.set
TTLCache_evict(data, max_items) ==
    IF Len(data) >= max_items /\ Len(data) > 0
    THEN RemoveAt(data, OldestPos(data))
    ELSE data

\* TTLCache.set
TTLCache_set(data, key, val, t, ttl, max_items) ==
    DictStore(TTLCache_evict(data, max_items), key, t + ttl, val)

-----------------------------------------------------------------------------
(* _rate_limit_ok: RATE_STATE is a dict ip -> (start, count) *)

\* RATE_STATE.get(ip, (now, 0))
RateGet(state, ip, t) ==
    IF ip \in DOMAIN state THEN state[ip] ELSE [start |-> t, count |-> 0]

\* RATE_STATE[ip] = (start, count)
RatePut(state, ip, start, count) ==
    [k \in (DOMAIN state) \cup {ip} |->
        IF k = ip THEN [start |-> start, count |-> count] ELSE state[k]]

\* _rate_limit_ok: the answer and the RATE_STATE it leaves
_rate_limit_ok(state, ip, t) ==
    LET cur == RateGet(state, ip, t) IN
    IF t - cur.start >= WINDOW
    THEN [state |-> RatePut(state, ip, t, 1), ok |-> TRUE]
    ELSE IF cur.count >= MAX_REQUESTS_PER_MINUTE
         THEN [state |-> RatePut(state, ip, cur.start, cur.count), ok |-> FALSE]
         ELSE [state |-> RatePut(state, ip, cur.start, cur.count + 1), ok |-> TRUE]

\* the accepted requests of the last WINDOW seconds, with one more at time t
LogAccept(log, t) ==
    Append(SelectSeq(log, LAMBDA u : t - u < WINDOW), t)

-----------------------------------------------------------------------------
(* The corpus: the law articles of the database and the embedding provider *)

\* A text is the sequence of its words. The articles of the database, by
\* id: isi is the text rebuild_index_from_db composes for the article
\* (article 4 has no text at all)
ArticleIds == 1..4
ToggledIds == {2, 3}    \* the articles whose status the admin changes
TextIds == 1..3         \* the articles that have a text

ArticleIsi(id) ==
    CASE id = 1 -> <<"isi1">>
      [] id = 2 -> <<"isi2">>
      [] id = 3 -> <<"isi3">>
      [] OTHER -> <<>>

\* the vector the embedding provider returns for a text
ProviderEmbedding(text) ==
    CASE text = <<"isi1">> -> <<1, 0>>
      [] text = <<"isi2">> -> <<0, 1>>
      [] text = <<"isi3">> -> <<1, 1>>
      [] text = <<"pasal", "helm", "motor", "apa">> -> <<1, 0>>
      [] text = <<"tips", "berkendara", "motor", "malam">> -> <<1, 1>>
      [] text = <<"denda", "parkir", "bahu", "jalan">> -> <<-1, 0>>
      [] OTHER -> <<0, 1>>

\* a document of the index, as rebuild_index_from_db builds it
Doc(id, isi, vec) == [id |-> id, isi |-> isi, embedding |-> vec]

\* the index a complete build of articles 1..3 leaves
FullIndex ==
    [i \in 1..3 |-> Doc(i, ArticleIsi(i), ProviderEmbedding(ArticleIsi(i)))]

-----------------------------------------------------------------------------
(* cosine_similarity and search_top_k *)

RECURSIVE SumTo(_, _)
\* f[1] + ... + f[n]
SumTo(f, n) == IF n = 0 THEN 0 ELSE f[n] + SumTo(f, n - 1)

Dot(v1, v2) == SumTo([i \in DOMAIN v1 |-> v1[i] * v2[i]], Len(v1))

\* cosine_similarity. A score c is held as sign(c) * 100 * c^2, which is
\* exact for the vectors of the corpus and orders scores as c does;
\* min_score is in the same unit.
cosine_similarity(v1, v2) ==
    IF v1 = <<>> \/ v2 = <<>> \/ Len(v1) # Len(v2) THEN 0
    ELSE LET dot == Dot(v1, v2)
             n1 == Dot(v1, v1)
             n2 == Dot(v2, v2)
         IN  IF n1 = 0 \/ n2 = 0 THEN 0
             ELSE IF dot >= 0 THEN (100 * dot * dot) \div (n1 * n2)
                  ELSE 0 - ((100 * dot * dot) \div (n1 * n2))

\* the loop of search_top_k: scored.append((s, doc)) for every doc, in order
ScoreAll(index, q) ==
    [i \in DOMAIN index |->
        [s |-> cosine_similarity(q, index[i].embedding), doc |-> index[i]]]

\* a descending sort that reverses the order of equal scores
SortByScoreDesc_reversed_ties(scored) ==
    LET rank(i) == 1 + Cardinality({j \in DOMAIN scored :
                        \/ scored[j].s > scored[i].s
                        \/ (scored[j].s = scored[i].s /\ j > i)})
    IN  [p \in DOMAIN scored |->
            scored[CHOOSE i \in DOMAIN scored : rank(i) = p]]

\* scored.sort(key=lambda x: x[0], reverse=True): a stable sort, so equal
\* scores keep their order
SortByScoreDesc(scored) ==
    LET rank(i) == 1 + Cardinality({j \in DOMAIN scored :
                        \/ scored[j].s > scored[i].s
                        \/ (scored[j].s = scored[i].s /\ j < i)})
    IN  [p \in DOMAIN scored |->
            scored[CHOOSE i \in DOMAIN scored : rank(i) = p]]

\* dd = dict(d); dd["score"] = float(s)
WithScore(x) ==
    [id |-> x.doc.id, isi |-> x.doc.isi, embedding |-> x.doc.embedding,
     score |-> x.s]

\* scored[:max(k, 1)]
TopCut(scored, k) == SubSeq(scored, 1, Min(Max(k, 1), Len(scored)))

\* lines 405-416 of search_top_k: score, sort, cut, threshold
Retrieve(index, q, k, min_score) ==
    LET top == TopCut(SortByScoreDesc(ScoreAll(index, q)), k)
        kept == SelectSeq(top, LAMBDA x : x.s >= min_score)
    IN  [i \in DOMAIN kept |-> WithScore(kept[i])]

\* search_index.search_similar: every document scored against the query
\* embedding, sorted by score, the first top_k returned
search_similar(index, q_vec, top_k) ==
    LET sorted == SortByScoreDesc(ScoreAll(index, q_vec))
        cut == SubSeq(sorted, 1, Min(Max(top_k, 0), Len(sorted)))
    IN  [i \in DOMAIN cut |-> WithScore(cut[i])]

\* "docs:" + _sha(json.dumps(query_embedding[:32])): the hash is taken as
\* injective, so the key is the prefix itself
DocsKey(q) == <<"docs", SubSeq(q, 1, Min(Len(q), KEY_PREFIX))>>

\* search_top_k: the documents returned and the DOCS_CACHE it leaves
search_top_k(index, data, q, k, min_score, t) ==
    IF index = <<>> \/ q = <<>>
    THEN [ret |-> <<>>, data |-> data]
    ELSE LET g == TTLCache_get(data, DocsKey(q), t) IN
         IF g.ret.some
         THEN [ret |-> g.ret.val, data |-> g.data]
         ELSE LET out == Retrieve(index, q, k, min_score) IN
              [ret |-> out,
               data |-> TTLCache_set(g.data, DocsKey(q), out, t,
                                     DOCS_TTL, DOCS_MAX)]

-----------------------------------------------------------------------------
(* embed_text and rebuild_index_from_db *)

\* embed_text(text) at time t with EMBED_CACHE data; fail says whether the
\* provider raises if it is called. raised: the call raises; called: the
\* provider was called.
embed_text(data, text, t, enabled, fail) ==
    IF ~enabled
    THEN [raised |-> TRUE, vec |-> <<>>, data |-> data, called |-> FALSE]
    ELSE IF strip(text) = <<>>
    THEN [raised |-> FALSE, vec |-> <<>>, data |-> data, called |-> FALSE]
    ELSE LET g == TTLCache_get(data, <<"emb", strip(text)>>, t) IN
         IF g.ret.some
         THEN [raised |-> FALSE, vec |-> g.ret.val, data |-> g.data,
               called |-> FALSE]
         ELSE IF fail
         THEN [raised |-> TRUE, vec |-> <<>>, data |-> g.data, called |-> TRUE]
         ELSE [raised |-> FALSE, vec |-> ProviderEmbedding(strip(text)),
               data |-> TTLCache_set(g.data, <<"emb", strip(text)>>,
                                     ProviderEmbedding(strip(text)), t,
                                     EMBED_TTL, EMBED_MAX),
               called |-> TRUE]

\* db.query(LawArticle).filter(status == "berlaku").order_by(id).all()
ActiveArticles(status) ==
    LET ids == {i \in ArticleIds : status[i] = "berlaku"}
        nth(p) == CHOOSE i \in ids : Cardinality({j \in ids : j < i}) = p - 1
    IN  [p \in 1..Cardinality(ids) |-> nth(p)]

\* one pass of the loop of rebuild_index_from_db over article id: the
\* new_index and the EMBED_CACHE it leaves
RebuildStep(new_index, data, id, t, enabled, fail) ==
    LET isi == ArticleIsi(id) IN
    IF isi = <<>>
    THEN [index |-> new_index, data |-> data]
    ELSE LET e == embed_text(data, isi, t, enabled, fail) IN
         IF e.raised \/ e.vec = <<>>
         THEN [index |-> new_index, data |-> e.data]
         ELSE [index |-> Append(new_index, Doc(id, isi, e.vec)),
               data |-> e.data]

RECURSIVE RebuildLoop(_, _, _, _, _, _, _)
\* the loop over articles[from..], with the set of articles the provider
\* fails for
RebuildLoop(arts, from, new_index, data, t, enabled, fails) ==
    IF from > Len(arts)
    THEN [index |-> new_index, data |-> data]
    ELSE LET r == RebuildStep(new_index, data, arts[from], t, enabled,
                              arts[from] \in fails)
         IN  RebuildLoop(arts, from + 1, r.index, r.data, t, enabled, fails)

\* an object id no live list uses
FreshRef(h) == CHOOSE r \in 0..Cardinality(DOMAIN h) : r \notin DOMAIN h

-----------------------------------------------------------------------------
(* generate_answer: the chain of generation models *)

\* A model name is its text before a final "-latest" and that suffix when
\* it has one: <<"m1">> is "m1", <<"m1", "-latest">> is "m1-latest".
EndsWithLatest(m) == m # <<>> /\ m[Len(m)] = "-latest"

\* GEN_MODELS = [GEN_MODEL] + [m for m in FALLBACK_MODELS if m != GEN_MODEL]
GEN_MODELS_of(primary, fallbacks) ==
    <<primary>> \o SelectSeq(fallbacks, LAMBDA m : m # primary)

\* candidates that leave out the "-latest" variant
_model_candidates_plain(model) == IF model = <<>> THEN <<>> ELSE <<model>>

\* _model_candidates
_model_candidates(model) ==
    IF model = <<>> THEN <<>>
    ELSE IF EndsWithLatest(model) THEN <<model>>
         ELSE <<model, Append(model, "-latest")>>

\* An error is the set of the marker substrings its lower-cased message
\* contains.
QuotaMarkers == {"resource_exhausted", "429", "quota", "rate"}
NotFoundMarkers == {"not_found", "is not found", "call listmodels"}

_is_quota_error(e) == e.msg \cap QuotaMarkers # {}

_is_not_found_model_error(e) == e.msg \cap NotFoundMarkers # {}

\* what one call of CLIENT.models.generate_content does: it returns a text
\* that is non-empty once stripped, returns no text, or raises
ErrorMsgs == {{}, {"not_found"}, {"429", "quota"},
              {"call listmodels", "rate"}}
Outcomes == {[kind |-> "text", msg |-> {}], [kind |-> "empty", msg |-> {}]}
            \cup {[kind |-> "error", msg |-> m] : m \in ErrorMsgs}

NoError == [msg |-> {}, call |-> 0]

\* raise last_err or RuntimeError("Gemini tidak mengembalikan jawaban")
GenRaise(calls, last_err) ==
    [kind |-> "raise", text |-> <<>>, model |-> <<>>, calls |-> calls,
     err |-> IF last_err.call = 0
             THEN [msg |-> {}, call |-> 0] ELSE last_err]

RECURSIVE GenLoop(_, _, _, _, _, _)
\* the two loops of generate_answer from base model i, candidate j; oracle[n]
\* is what the n-th provider call does; calls are the calls made so far
GenLoop(models, i, j, oracle, calls, last_err) ==
    IF i > Len(models) THEN GenRaise(calls, last_err)
    ELSE LET cands == _model_candidates(models[i]) IN
    IF j > Len(cands) THEN GenLoop(models, i + 1, 1, oracle, calls, last_err)
    ELSE LET n == Len(calls) + 1
             o == oracle[n]
             made == Append(calls, [model |-> cands[j], outcome |-> o])
             e == [msg |-> o.msg, call |-> n]
         IN  IF o.kind = "text"
             THEN [kind |-> "return", text |-> <<"text", n>>,
                   model |-> cands[j], calls |-> made, err |-> NoError]
             ELSE IF o.kind = "empty"
             THEN GenLoop(models, i, j + 1, oracle, made, last_err)
             ELSE IF _is_not_found_model_error(e) \/ _is_quota_error(e)
             THEN GenLoop(models, i, j + 1, oracle, made, e)
             ELSE GenLoop(models, i + 1, 1, oracle, made, e)

\* generate_answer: the provider calls it makes and what it returns or raises
generate_answer(enabled, models, oracle) ==
    IF ~enabled
    THEN [kind |-> "raise", text |-> <<>>, model |-> <<>>, calls |-> <<>>,
          err |-> [msg |-> {"gemini tidak aktif"}, call |-> 0]]
    ELSE GenLoop(models, 1, 1, oracle, <<>>, NoError)

-----------------------------------------------------------------------------
(* The text predicates of the chat pipeline. Each takes the question as     *)
(* _chat_impl passes it and normalises it itself, as the code does.         *)

\* detect_language
detect_language(text) ==
    LET t == _norm(text)
        en_words == {"hello", "hi", "thanks", "please", "car", "motorcycle",
                     "traffic", "ticket", "license", "accident", "road"}
        id_words == {"halo", "hai", "makasih", "terima", "tolong", "motor",
                     "mobil", "lalu", "lintas", "tilang", "sim", "kecelakaan",
                     "jalan"}
        en_hits == Cardinality({i \in DOMAIN t : t[i] \in en_words})
        id_hits == Cardinality({i \in DOMAIN t : t[i] \in id_words})
    IN  IF t = <<>> THEN "id"
        ELSE IF en_hits > id_hits THEN "en" ELSE "id"

\* looks_like_prompt_injection
looks_like_prompt_injection(q) ==
    ContainsAny(_norm(q),
        {<<"ignore", "previous">>, <<"ignore", "all">>,
         <<"abaikan", "instruksi">>, <<"abaikan", "semua">>,
         <<"system", "prompt">>, <<"developer", "message">>, <<"bocorkan">>,
         <<"api", "key">>, <<"kunci", "api">>, <<"password">>,
         <<"token", "rahasia">>, <<"jailbreak">>, <<"bypass">>})

\* safety_refuse_or_redirect: whether it returns a refusal
safety_refuse_or_redirect(q) ==
    ContainsAny(_norm(q),
        {<<"cara", "kabur", "dari", "polisi">>,
         <<"cara", "menghindari", "tilang">>, <<"cara", "lolos", "etle">>,
         <<"plat", "palsu">>, <<"nomor", "polisi", "palsu">>,
         <<"hapus", "bukti">>, <<"manipulasi", "etle">>,
         <<"nembus", "razia">>})

\* is_traffic_related
is_traffic_related(question) ==
    LET q == _norm(question) IN
    \/ ContainsAny(q,
        {<<"lalu", "lintas">>, <<"angkutan", "jalan">>, <<"jalan", "raya">>,
         <<"jalan", "tol">>, <<"helm">>, <<"sabuk", "pengaman">>, <<"motor">>,
         <<"mobil">>, <<"kendaraan">>, <<"sim">>, <<"stnk">>, <<"tilang">>,
         <<"etle">>, <<"ngebut">>, <<"batas", "kecepatan">>, <<"rambu">>,
         <<"marka">>, <<"stop", "line">>, <<"zebra", "cross">>,
         <<"penyeberangan">>, <<"lampu", "merah">>, <<"lampu", "kuning">>,
         <<"lampu", "hijau">>, <<"lampu", "lalu", "lintas">>,
         <<"traffic", "light">>, <<"apill">>, <<"polisi", "lalu", "lintas">>,
         <<"pengemudi">>, <<"penumpang">>, <<"berkendara">>, <<"parkir">>,
         <<"kecelakaan">>, <<"tabrakan">>, <<"menabrak">>,
         <<"putar", "balik">>, <<"melawan", "arus">>, <<"menyalip">>,
         <<"bahu", "jalan">>})
    \/ \E i, j \in DOMAIN q :
          i < j /\ q[i] = "lampu" /\ q[j] \in {"kuning", "merah", "hijau"}

\* smalltalk_match: "greet", "thanks", "laugh" or "" for None
smalltalk_match(question) ==
    LET q == _norm(question)
        greetings == {"hai", "halo", "hi", "hello", "pagi", "siang", "sore",
                      "malam", "assalamualaikum", "permisi", "tes", "test",
                      "cek", "coba", "yow", "yo"}
        thanks == {<<"makasih">>, <<"terima", "kasih">>, <<"thanks">>,
                   <<"thx">>, <<"mantap">>, <<"sip">>, <<"oke">>, <<"ok">>,
                   <<"nice">>, <<"keren">>}
    IN  IF q = <<>> THEN ""
        ELSE IF q[1] \in greetings THEN "greet"
        ELSE IF ContainsAny(q, thanks) THEN "thanks"
        ELSE IF q \in {<<"wkwk">>, <<"haha">>, <<"hehe">>, <<"lol">>}
             THEN "laugh"
        ELSE ""

\* any(k in q for k in hukum_keywords); "uu " is the word "uu" before
\* another word
HasHukumKeyword(question) ==
    LET q == _norm(question) IN
    \/ ContainsAny(q, {<<"pasal">>, <<"undang-undang">>, <<"uu", "no">>,
                       <<"uu", "nomor">>, <<"denda">>, <<"sanksi">>,
                       <<"pidana">>, <<"ayat">>, <<"tilang">>, <<"etle">>})
    \/ \E i \in 1..(Len(q) - 1) : q[i] = "uu"

\* the trained model asked before the keywords
predict_intent_model_first(question, loaded, prediction) ==
    IF loaded /\ prediction # "raise" THEN prediction
    ELSE IF HasHukumKeyword(question) THEN "butuh_pasal"
    ELSE "tips_umum"

\* the exception of INTENT_MODEL.predict not caught
predict_intent_uncaught(question, loaded, prediction) ==
    IF HasHukumKeyword(question) THEN "butuh_pasal"
    ELSE IF ~loaded THEN "tips_umum"
    ELSE prediction

\* predict_intent. loaded: INTENT_MODEL is not None; prediction: what
\* INTENT_MODEL.predict returns, or "raise" when it raises
predict_intent(question, loaded, prediction) ==
    IF HasHukumKeyword(question) THEN "butuh_pasal"
    ELSE IF ~loaded THEN "tips_umum"
    ELSE IF prediction = "raise" THEN "tips_umum"
    ELSE prediction

\* detect_tone
detect_tone(question) ==
    IF ContainsAny(_norm(question),
          {<<"ga">>, <<"gak">>, <<"gk">>, <<"nggak">>, <<"ngga">>, <<"wkwk">>,
           <<"haha">>, <<"hehe">>, <<"kok">>, <<"aja">>})
    THEN "santai" ELSE "formal"

\* A dict of preferences is a function from the keys it has
NoPrefs == [k \in {} |-> ""]

\* merged = dict(cur); merged.update(patch)
DictUpdate(cur, patch) ==
    [k \in (DOMAIN cur) \cup (DOMAIN patch) |->
        IF k \in DOMAIN patch THEN patch[k] ELSE cur[k]]

\* prefs.get(key, default)
PrefGet(prefs, key, default) ==
    IF key \in DOMAIN prefs THEN prefs[key] ELSE default

\* parse_pref_patch
parse_pref_patch(question) ==
    LET q == _norm(question)
        short == ContainsAny(q, {<<"jawab", "singkat">>,
                     <<"jawaban", "singkat">>, <<"singkat", "aja">>,
                     <<"singkatnya">>, <<"ringkas">>, <<"pendek">>})
        long == ContainsAny(q, {<<"jawab", "panjang">>,
                    <<"jawaban", "panjang">>, <<"jawaban", "detail">>,
                    <<"detail">>, <<"jelasin", "lengkap">>, <<"lengkap">>})
        santai == ContainsAny(q, {<<"santai", "aja">>, <<"bahasa", "santai">>})
        formal == ContainsAny(q, {<<"formal", "aja">>, <<"bahasa", "formal">>})
        vb == IF long THEN ("verbosity" :> "long")
              ELSE IF short THEN ("verbosity" :> "short") ELSE NoPrefs
        tp == IF formal THEN ("tone_pref" :> "formal")
              ELSE IF santai THEN ("tone_pref" :> "santai") ELSE NoPrefs
    IN  DictUpdate(vb, tp)

\* _is_preference_only
_is_preference_only(question, patch) ==
    LET filler == {"aku", "saya", "mau", "ingin", "tolong", "pls", "please",
                   "dong", "ya", "yah", "deh", "jawab", "jawaban", "singkat",
                   "ringkas", "pendek", "detail", "panjang", "lengkap", "aja",
                   "saja", "kok", "nih", "gimana", "bagaimana"}
        cleaned == SelectSeq(_norm(question), LAMBDA w : w \notin filler)
    IN  IF patch = NoPrefs THEN FALSE
        ELSE IF is_traffic_related(question) THEN FALSE
        ELSE IF smalltalk_match(question) # "" THEN FALSE
        ELSE Len(cleaned) <= 2

\* compute_verbosity
compute_verbosity(question, intent, prefs) ==
    LET q == _norm(question) IN
    IF PrefGet(prefs, "verbosity", "") \in {"short", "normal", "long"}
    THEN prefs["verbosity"]
    ELSE IF ContainsAny(q, {<<"singkat">>, <<"ringkas">>, <<"pendek">>})
    THEN "short"
    ELSE IF ContainsAny(q, {<<"detail">>, <<"lengkap">>, <<"panjang">>})
    THEN "long"
    ELSE IF intent = "butuh_pasal" THEN "normal"
    ELSE IF Len(q) <= 6 THEN "short"
    ELSE "normal"

\* case_intake_questions: the clarifying questions, each named by its topic
\* s[:n]
Take(s, n) == SubSeq(s, 1, Min(n, Len(s)))

case_intake_questions(question) ==
    LET q == _norm(question)
        has(w) == Contains(q, <<w>>)
        qs == (IF Len(q) <= 3 /\ smalltalk_match(q) = ""
               THEN <<"maksud">> ELSE <<>>)
              \o (IF (has("tilang") \/ has("etle"))
                     /\ ~has("etle") /\ ~has("manual")
                  THEN <<"manual_atau_etle">> ELSE <<>>)
              \o (IF (has("tilang") \/ has("etle"))
                     /\ ~has("motor") /\ ~has("mobil")
                  THEN <<"motor_atau_mobil">> ELSE <<>>)
              \o (IF (has("kecelakaan") \/ has("tabrakan") \/ has("menabrak"))
                     /\ ~has("korban") /\ ~has("luka") /\ ~has("meninggal")
                  THEN <<"korban">> ELSE <<>>)
              \o (IF (has("kecelakaan") \/ has("tabrakan") \/ has("menabrak"))
                     /\ ~has("tol") /\ has("jalan")
                  THEN <<"kota_atau_tol">> ELSE <<>>)
              \o (IF has("parkir") /\ ~has("rambu") /\ ~has("bahu")
                  THEN <<"parkir">> ELSE <<>>)
    IN  Take(qs, 3)

\* faq_match: the category of the first rule of FAQ_RULES with a pattern
\* that matches, or "" for None
faq_match(question) ==
    LET q == _norm(question) IN
    IF HasWord(q, "sim") THEN "SIM"
    ELSE IF HasWord(q, "stnk") \/ Contains(q, <<"pajak">>) THEN "STNK"
    ELSE IF ContainsAny(q, {<<"helm">>, <<"sabuk", "pengaman">>,
                            <<"seatbelt">>, <<"pengaman">>})
    THEN "Helm & Safety"
    ELSE IF ContainsAny(q, {<<"lampu", "merah">>, <<"rambu">>,
                            <<"stop", "line">>, <<"marka">>})
    THEN "Lampu merah & rambu"
    ELSE IF HasWord(q, "etle") \/ ContainsAny(q, {<<"tilang">>,
                                                  <<"kena", "kamera">>})
    THEN "ETLE/Tilang"
    ELSE ""

-----------------------------------------------------------------------------
(* The store of the chat: sessions, messages and session preferences *)

\* An answer is one of the fixed messages of the code, named (with the
\* parts that vary in detail), or the text the provider generated; short
\* says it was cut by postprocess_answer_by_verbosity, disc that the
\* disclaimer was appended. The same record holds the text of a question.
NoAnswer == [fixed |-> "", detail |-> <<>>, text |-> <<>>, lang |-> "",
             short |-> FALSE, disc |-> FALSE]

Fixed(name, detail, lang) ==
    [NoAnswer EXCEPT !.fixed = name, !.detail = detail, !.lang = lang]

Generated(text, lang) == [NoAnswer EXCEPT !.text = text, !.lang = lang]

UserText(question) == [NoAnswer EXCEPT !.text = question]

\* not answer
IsEmptyAnswer(a) == a.fixed = "" /\ a.text = <<>>

\* ensure_session: the ChatSession table it leaves and the id of the session
ensure_session(rows, username, session_id, title_seed) ==
    IF session_id # 0 /\ session_id \in DOMAIN rows
    THEN [sessions |-> rows, id |-> session_id]
    ELSE [sessions |->
             Append(rows,
                    [username |-> IF strip(username) # <<>> THEN strip(username)
                                  ELSE <<"guest:">>,
                     title |-> title_seed]),
          id |-> Len(rows) + 1]

\* get_session_prefs: the preferences and the PREF_CACHE it leaves
\* the part of get_session_prefs after PREF_CACHE.get returned g
CachedOrStoredPrefs(g, rows, session_id, t) ==
    LET stored == IF session_id \in DOMAIN rows THEN rows[session_id]
                  ELSE NoPrefs
    IN  IF g.ret.some
        THEN [prefs |-> g.ret.val, data |-> g.data]
        ELSE [prefs |-> stored,
              data |-> TTLCache_set(g.data, <<"pref", session_id>>, stored, t,
                                    PREF_TTL, PREF_MAX)]

get_session_prefs(rows, data, session_id, t) ==
    CachedOrStoredPrefs(TTLCache_get(data, <<"pref", session_id>>, t),
                        rows, session_id, t)

\* set_session_prefs with a patch that is not empty: the merged
\* preferences, the SystemMeta rows and the PREF_CACHE it leaves
\* the write that is rolled back leaves the SystemMeta rows as they were
StorePrefs(rows, data, session_id, merged, t, fail) ==
    [prefs |-> merged,
     meta |-> IF fail THEN rows
              ELSE [k \in (DOMAIN rows) \cup {session_id} |->
                       IF k = session_id THEN merged ELSE rows[k]],
     data |-> TTLCache_set(data, <<"pref", session_id>>, merged, t,
                           PREF_TTL, PREF_MAX)]

set_session_prefs(rows, data, session_id, patch, t, fail) ==
    LET cur == get_session_prefs(rows, data, session_id, t) IN
    StorePrefs(rows, cur.data, session_id, DictUpdate(cur.prefs, patch), t,
               fail)

\* db.add(user message); db.add(assistant message); db.commit()
\* the reply added without the question
AddMessages_reply_only(rows, session_id, question, ans) ==
    Append(rows, [session_id |-> session_id, role |-> "assistant",
                  content |-> ans])

AddMessages(rows, session_id, question, ans) ==
    rows \o <<[session_id |-> session_id, role |-> "user",
              content |-> UserText(question)],
             [session_id |-> session_id, role |-> "assistant",
              content |-> ans]>>

\* should_append_disclaimer
should_append_disclaimer(intent, answer) ==
    IsEmptyAnswer(answer) \/ intent = "butuh_pasal"

\* In a generated text the token "\n" is a line break, and a word that ends
\* a sentence carries its ".", "?" or "!".
IsBlank(w) == w \in {" ", "\n"}

SentenceEnd(w) == w \in {"helm.", "wajib.", "ada.", "aman.", "bisa?", "ya!"}

RECURSIVE StripBlank(_)
\* s.strip()
StripBlank(t) ==
    IF t = <<>> THEN t
    ELSE IF IsBlank(Head(t)) THEN StripBlank(Tail(t))
    ELSE IF IsBlank(t[Len(t)]) THEN StripBlank(SubSeq(t, 1, Len(t) - 1))
    ELSE t

RECURSIVE Sentences(_, _)
\* re.split(r"(?<=[\.\?\!])\s+", t), each part stripped, the empty parts
\* left out; cur is the part being read
Sentences(t, cur) ==
    IF t = <<>>
    THEN (IF StripBlank(cur) = <<>> THEN <<>> ELSE <<StripBlank(cur)>>)
    ELSE IF SentenceEnd(Head(t)) /\ Tail(t) # <<>>
    THEN <<StripBlank(Append(cur, Head(t)))>> \o Sentences(Tail(t), <<>>)
    ELSE Sentences(Tail(t), Append(cur, Head(t)))

RECURSIVE JoinParts(_)
\* " ".join(parts)
JoinParts(parts) ==
    IF parts = <<>> THEN <<>> ELSE Head(parts) \o JoinParts(Tail(parts))

RECURSIVE SplitLines(_, _)
\* t.splitlines(), each line stripped
SplitLines(t, cur) ==
    IF t = <<>> THEN <<StripBlank(cur)>>
    ELSE IF Head(t) = "\n"
    THEN <<StripBlank(cur)>> \o SplitLines(Tail(t), <<>>)
    ELSE SplitLines(Tail(t), Append(cur, Head(t)))

\* the last line that starts with "intinya", or <<>> for None
SummaryLine(lines) ==
    LET at == {i \in DOMAIN lines :
                  lines[i] # <<>> /\ lines[i][1] \in {"intinya", "intinya:"}}
    IN  IF at = {} THEN <<>>
        ELSE lines[CHOOSE i \in at : \A j \in at : j <= i]

\* p in t, for two texts
IsInfix(p, t) ==
    \E i \in 1..(Len(t) - Len(p) + 1) : SubSeq(t, i, i + Len(p) - 1) = p

\* the sentences after the first two, in place of the first two
ShortText_tail(t) ==
    LET sentences == Sentences(t, <<>>)
    IN  JoinParts(SubSeq(sentences, 3, Len(sentences)))

\* postprocess_answer_by_verbosity for verbosity "short", on a text that is
\* stripped and not empty: the first two sentences, and the summary line
\* when they do not hold it
ShortText(t) ==
    LET sentences == Sentences(t, <<>>)
        head == IF sentences = <<>> THEN t
                ELSE StripBlank(JoinParts(Take(sentences, 2)))
        summary == SummaryLine(SplitLines(t, <<>>))
    IN  IF summary # <<>> /\ ~IsInfix(summary, head)
        THEN StripBlank(head \o <<"\n", "\n">> \o summary)
        ELSE StripBlank(head)

\* postprocess_answer_by_verbosity; a fixed message that is cut keeps its
\* name and is marked short
postprocess_answer_by_verbosity(a, verbosity) ==
    IF IsEmptyAnswer(a) \/ verbosity # "short" THEN a
    ELSE IF a.fixed # "" THEN [a EXCEPT !.short = TRUE]
    ELSE [a EXCEPT !.short = TRUE, !.text = ShortText(StripBlank(a.text))]

\* the text the provider returned for the question at its n-th call of a
\* request, stripped: texts of four sentences, of one sentence without its
\* full stop, of the summary line alone, of lines apart
ProviderText(question, n) ==
    CASE n > 1 -> <<"bisa?", "\n", "\n", "ya!", "\n", "intinya", "\n", "sip">>
      [] n = 1 /\ HasWord(question, "pasal") ->
             <<"pakai", "helm.", "itu", "wajib.", "denda", "ada.", "\n",
               "intinya:", "tetap", "aman.">>
      [] n = 1 /\ HasWord(question, "tips") -> <<"pakai", "helm">>
      [] OTHER -> <<"intinya:", "aman.">>

\* sources that are listed whatever the intent
build_sources_any_intent(intent, query_emb, docs) ==
    [i \in DOMAIN docs |->
        [id |-> docs[i].id, isi |-> docs[i].isi, score |-> docs[i].score]]

\* build_sources
build_sources(intent, query_emb, docs) ==
    IF intent # "butuh_pasal" \/ query_emb = <<>> \/ docs = <<>> THEN <<>>
    ELSE [i \in DOMAIN docs |->
            [id |-> docs[i].id, isi |-> docs[i].isi,
             score |-> IF docs[i].score # 0 THEN docs[i].score
                       ELSE cosine_similarity(query_emb, docs[i].embedding)]]

MAX_DOC_CONTEXT_CHARS == 2400   \* the default of MAX_DOC_CONTEXT_CHARS
DOC_BLOCK_CHARS == 1400         \* block = _shorten(block, 1400)
SHORTEN_KEEPS_WORD == 80        \* _shorten: if sp > 80

\* The block "[i] judul\nisi" of a document in the context, by the id of its
\* article: the number of its characters, and sp, what cut.rfind(" ") is
\* when _shorten cuts it (the characters before that space are not spaces).
DocBlock(id) ==
    CASE id = 1 -> [len |-> 1800, sp |-> 1390]
      [] id = 2 -> [len |-> 600, sp |-> 590]
      [] OTHER -> [len |-> 1250, sp |-> 1240]

\* len(_shorten(s, n)) for a text of block.len characters
_shorten(block, n) ==
    IF block.len <= n THEN block.len
    ELSE (IF block.sp > SHORTEN_KEEPS_WORD THEN block.sp ELSE n) + 3

RECURSIVE ContextBlocks(_, _, _)
\* the loop of build_context from docs[from] on, with total characters in
\* doc_blocks so far: the ids of the documents whose block it appends
ContextBlocks(docs, from, total) ==
    IF from > Len(docs) THEN <<>>
    ELSE IF total + _shorten(DocBlock(docs[from].id), DOC_BLOCK_CHARS)
               > MAX_DOC_CONTEXT_CHARS
    THEN <<>>
    ELSE <<docs[from].id>>
         \o ContextBlocks(docs, from + 1,
                          total + _shorten(DocBlock(docs[from].id),
                                           DOC_BLOCK_CHARS))

\* build_context: the documents whose block is in the context it returns
build_context(docs) == ContextBlocks(docs, 1, 0)

-----------------------------------------------------------------------------
(* _chat_impl and chat_stream. S is the state a request reads and writes:   *)
(* RATE_STATE, the ChatSession, ChatMessage and SystemMeta tables and the   *)
(* three caches. E is what the request finds around it: the clock, the      *)
(* index, the configuration and what the providers do when called. The      *)
(* result is the state left and the response; did names the calls made:    *)
(* "session" (ensure_session), "intent_model" (INTENT_MODEL.predict),      *)
(* "embed" (embed_text), "search" (search_top_k), "generate"               *)
(* (generate_answer), and the commits "write_session" (ensure_session      *)
(* adding a session), "write_prefs" (set_session_prefs) and                *)
(* "write_messages" (the two ChatMessage rows). While a request is handled *)
(* S also holds store_fail, the commits the store refuses, and wrote, the  *)
(* commits made so far. status 500 stands for an exception that leaves     *)
(* the handler.                                                            *)
(* docs are the ids of the documents retrieved, context those of the       *)
(* documents build_context put in the prompt, failed the providers that    *)
(* raised. The rest of the prompt (fetch_history_text) and the suggested   *)
(* questions, which change no state, are left out.                          *)

NoResponse == [status |-> 0, answer |-> NoAnswer, sources |-> <<>>,
               session_id |-> 0, intent |-> "", tone |-> "", mode |-> "",
               model_used |-> <<>>, did |-> {}, gen_calls |-> 0,
               events |-> <<>>, docs |-> <<>>, context |-> <<>>,
               failed |-> {}]

Reply(S, r) == [state |-> S, resp |-> [r EXCEPT !.did = @ \cup S.wrote]]

\* a rejection that comes after the session is looked up or created
TooManyRequests_after_session(S, req) ==
    LET s == ensure_session(S.sessions, req.username, req.session_id,
                            strip(req.question))
    IN  Reply([S EXCEPT !.sessions = s.sessions],
              [NoResponse EXCEPT !.status = 429, !.did = {"session"}])

\* an exception leaves the handler: the framework answers 500 (a stream
\* that was opened ends without its done event)
ServerError(S, r) ==
    Reply(S, [NoResponse EXCEPT !.status = 500, !.did = r.did,
                                !.failed = r.failed])

\* raise HTTPException(status_code=429)
TooManyRequests(S, req) == Reply(S, [NoResponse EXCEPT !.status = 429])

\* the responses of the paths that return before a session exists
EarlyResponse(req, mode, ans) ==
    [NoResponse EXCEPT !.status = 200, !.answer = ans,
                       !.session_id = req.session_id, !.mode = mode,
                       !.intent = IF mode = "" THEN "" ELSE "tips_umum",
                       !.tone = IF mode = "" THEN "" ELSE "formal"]

\* ensure_session, get_session_prefs, parse_pref_patch and set_session_prefs
\* as _chat_impl calls them
SessionPrefs(S, t, id, patch, got) ==
    IF patch = NoPrefs
    THEN [prefs |-> got.prefs, meta |-> S.meta, data |-> got.data]
    ELSE set_session_prefs(S.meta, got.data, id, patch, t,
                           "write_prefs" \in S.store_fail)

\* raised: db.commit() of ensure_session raised, and the exception leaves
\* _chat_impl
SessionOpened(S, s, patch, p) ==
    IF s.sessions # S.sessions /\ "write_session" \in S.store_fail
    THEN [state |-> [S EXCEPT !.wrote = @ \cup {"write_session"}],
          id |-> 0, prefs |-> NoPrefs, patch |-> patch, raised |-> TRUE]
    ELSE [state |-> [S EXCEPT !.sessions = s.sessions, !.meta = p.meta,
                              !.PREF_CACHE = p.data,
                              !.wrote = (IF s.sessions # S.sessions
                                         THEN {"write_session"} ELSE {})
                                        \cup (IF patch # NoPrefs
                                              THEN {"write_prefs"} ELSE {})],
          id |-> s.id, prefs |-> p.prefs, patch |-> patch, raised |-> FALSE]

SessionWithPrefs(S, t, s, patch) ==
    SessionOpened(S, s, patch,
        SessionPrefs(S, t, s.id, patch,
                     get_session_prefs(S.meta, S.PREF_CACHE, s.id, t)))

OpenSession(S, E, req, question) ==
    SessionWithPrefs(S, E.t,
        ensure_session(S.sessions, req.username, req.session_id, question),
        parse_pref_patch(question))

\* tone = detect_tone(question), unless the session has a tone_pref
ToneOf(question, prefs) ==
    IF PrefGet(prefs, "tone_pref", "") \in {"santai", "formal"}
    THEN prefs["tone_pref"] ELSE detect_tone(question)

\* the two messages are added and the response is returned, unless
\* db.commit() raises: the exception leaves _chat_impl
Persisted(S, id, question, r) ==
    IF "write_messages" \in S.store_fail
    THEN ServerError([S EXCEPT !.wrote = @ \cup {"write_messages"}],
                     [r EXCEPT !.did = @ \cup {"session"}])
    ELSE Reply([S EXCEPT !.messages = AddMessages(@, id, question, r.answer),
                         !.wrote = @ \cup {"write_messages"}],
               [r EXCEPT !.status = 200, !.session_id = id,
                         !.did = @ \cup {"session"}])

\* final_disclaimer is appended
WithDisclaimer(a) == [a EXCEPT !.disc = TRUE]

\* lines 1280-1334: the answer generated (g is what generate_answer did),
\* cut to the verbosity, with the disclaimer, persisted
ChatGenerated(S, id, question, lang, intent, verbosity, r, sources, g) ==
    LET answer_text ==
            IF g.kind = "return"
            THEN Generated(ProviderText(question, g.text[2]), lang)
            ELSE IF _is_quota_error(g.err) THEN Fixed("ai_busy", <<>>, lang)
            ELSE Fixed("ai_failed", <<>>, lang)
        cut == postprocess_answer_by_verbosity(answer_text, verbosity)
    IN  Persisted(S, id, question,
            [r EXCEPT !.mode = "answer",
                      !.answer = IF should_append_disclaimer(intent, cut)
                                 THEN WithDisclaimer(cut) ELSE cut,
                      !.sources = sources,
                      !.model_used = g.model,
                      !.did = @ \cup {"generate"},
                      !.failed = IF g.kind = "return" THEN @
                                 ELSE @ \cup {"generate"},
                      !.gen_calls = Len(g.calls)])

\* generation whatever was retrieved
ChatRetrieved_no_guardrail(S, E, id, question, lang, intent, verbosity, r, query_emb, docs) ==
    ChatGenerated(S, id, question, lang, intent, verbosity,
                  [r EXCEPT !.docs = [i \in DOMAIN docs |-> docs[i].id],
                            !.context = build_context(docs)],
                  build_sources(intent, query_emb, docs),
                  generate_answer(E.enabled, E.models, E.oracle))

\* lines 1250-1307: the guardrail, or generation; docs are the documents
\* retrieved
ChatRetrieved(S, E, id, question, lang, intent, verbosity, r, query_emb, docs) ==
    IF intent = "butuh_pasal" /\ docs = <<>>
    THEN Persisted(S, id, question,
             [r EXCEPT !.mode = "guardrail",
                       !.answer = WithDisclaimer(
                                      Fixed("guardrail", <<>>, lang))])
    ELSE ChatGenerated(S, id, question, lang, intent, verbosity,
                       [r EXCEPT !.docs = [i \in DOMAIN docs |-> docs[i].id],
                                 !.context = build_context(docs)],
                       build_sources(intent, query_emb, docs),
                       generate_answer(E.enabled, E.models, E.oracle))

\* retrieval whose exception is not caught
ChatEmbedded_uncaught(S, E, id, question, lang, intent, verbosity, r, emb) ==
    LET found == search_top_k(E.index, S.DOCS_CACHE, emb.vec, RAG_TOP_K,
                              RAG_MIN_SCORE, E.t)
    IN  IF emb.raised
        THEN ServerError([S EXCEPT !.EMBED_CACHE = emb.data],
                         [r EXCEPT !.did = @ \cup {"embed"},
                                   !.failed = @ \cup {"embed"}])
        ELSE ChatRetrieved([S EXCEPT !.EMBED_CACHE = emb.data,
                                     !.DOCS_CACHE = found.data], E, id,
                           question, lang, intent, verbosity,
                           [r EXCEPT !.did = @ \cup {"embed", "search"}],
                           emb.vec, found.ret)

\* lines 1242-1248: search_top_k, unless embed_text raised (emb is what
\* embed_text did)
ChatEmbedded(S, E, id, question, lang, intent, verbosity, r, emb) ==
    LET found == search_top_k(E.index, S.DOCS_CACHE, emb.vec, RAG_TOP_K,
                              RAG_MIN_SCORE, E.t)
    IN  IF emb.raised
        THEN ChatRetrieved([S EXCEPT !.EMBED_CACHE = emb.data], E, id,
                           question, lang, intent, verbosity,
                           [r EXCEPT !.did = @ \cup {"embed"},
                                     !.failed = @ \cup {"embed"}],
                           <<>>, <<>>)
        ELSE ChatRetrieved([S EXCEPT !.EMBED_CACHE = emb.data,
                                     !.DOCS_CACHE = found.data], E, id,
                           question, lang, intent, verbosity,
                           [r EXCEPT !.did = @ \cup {"embed", "search"}],
                           emb.vec, found.ret)

\* lines 1238-1334: retrieval, the guardrail, generation and persistence
ChatAnswer(S, E, id, question, lang, intent, verbosity, r) ==
    ChatEmbedded(S, E, id, question, lang, intent, verbosity, r,
                 embed_text(S.EMBED_CACHE, question, E.t, E.enabled,
                            E.embed_fail))

\* lines 1104-1236: the paths that answer without retrieval; o is the
\* session opened, r the response so far
ChatRouted(o, E, question, lang, intent, tone, r, faq, qs) ==
    LET vb == PrefGet(o.prefs, "verbosity", "normal")
        faq_ans == Fixed("faq", <<faq>>, lang)
    IN  IF _is_preference_only(question, o.patch)
        THEN Persisted(o.state, o.id, question,
                 [r EXCEPT !.intent = "meta", !.mode = "preference_set",
                           !.did = {},
                           !.answer = Fixed("preference",
                               <<IF vb \in {"short", "long"} THEN vb
                                 ELSE "saved">>, lang)])
        ELSE IF faq # "" /\ intent # "butuh_pasal"
                /\ is_traffic_related(question)
        THEN Persisted(o.state, o.id, question,
                 [r EXCEPT !.mode = "faq",
                           !.answer = IF should_append_disclaimer(intent,
                                                                  faq_ans)
                                      THEN WithDisclaimer(faq_ans)
                                      ELSE faq_ans])
        ELSE IF ~is_traffic_related(question)
        THEN Persisted(o.state, o.id, question,
                 [r EXCEPT !.mode = "out_of_scope",
                           !.answer = WithDisclaimer(
                                          Fixed("out_of_scope", <<>>, lang))])
        ELSE IF qs # <<>> /\ (Len(_norm(question)) <= 6
                              \/ intent = "butuh_pasal")
        THEN Persisted(o.state, o.id, question,
                 [r EXCEPT !.mode = "case_intake",
                           !.answer = WithDisclaimer(
                               Fixed("clarify",
                                     <<IF lang = "en" THEN "" ELSE tone>> \o qs,
                                     lang))])
        ELSE ChatAnswer(o.state, E, o.id, question, lang, intent,
                        compute_verbosity(question, intent, o.prefs), r)

\* lines 1151-1156: intent and tone
ChatIntent(o, E, question, lang, intent, tone) ==
    ChatRouted(o, E, question, lang, intent, tone,
        [NoResponse EXCEPT
            !.intent = intent, !.tone = tone,
            !.did = IF E.loaded /\ ~HasHukumKeyword(question)
                    THEN {"intent_model"} ELSE {}],
        faq_match(question), case_intake_questions(question))

\* lines 1097-1236: the session, the preferences and the paths that answer
\* without retrieval
ChatOpened(o, E, question, lang) ==
    ChatIntent(o, E, question, lang,
               predict_intent(question, E.loaded, E.prediction),
               ToneOf(question, o.prefs))

ChatSession(o, E, question, lang) ==
    IF o.raised THEN ServerError(o.state, NoResponse)
    ELSE ChatOpened(o, E, question, lang)

ChatWithSession(S, E, req, question, lang) ==
    ChatSession(OpenSession(S, E, req, question), E, question, lang)

\* lines 1068-1095: small talk
SmalltalkReply(o, question, lang) ==
    IF o.raised THEN ServerError(o.state, NoResponse)
    ELSE Persisted(o.state, o.id, question,
             [NoResponse EXCEPT !.intent = "smalltalk", !.mode = "smalltalk",
                                !.tone = ToneOf(question, o.prefs),
                                !.answer = Fixed("smalltalk",
                                               <<smalltalk_match(question)>>,
                                               lang)])

ChatSmalltalk(S, E, req, question, lang) ==
    SmalltalkReply(OpenSession(S, E, req, question), question, lang)

\* the empty question handled as any other
ChatQuestion_no_empty_check(S, E, req, question, lang) ==
    IF looks_like_prompt_injection(question)
    THEN Reply(S, EarlyResponse(req, "safety",
                                Fixed("injection", <<>>, lang)))
    ELSE IF safety_refuse_or_redirect(question)
    THEN Reply(S, EarlyResponse(req, "safety",
                                Fixed("safety_refusal", <<>>, lang)))
    ELSE IF smalltalk_match(question) # ""
    THEN ChatSmalltalk(S, E, req, question, lang)
    ELSE ChatWithSession(S, E, req, question, lang)

\* lines 1021-1095: the question stripped, and the paths that return before
\* a session exists
ChatQuestion(S, E, req, question, lang) ==
    IF question = <<>>
    THEN Reply(S, EarlyResponse(req, "", Fixed("ask_question", <<>>, "id")))
    ELSE IF looks_like_prompt_injection(question)
    THEN Reply(S, EarlyResponse(req, "safety",
                                Fixed("injection", <<>>, lang)))
    ELSE IF safety_refuse_or_redirect(question)
    THEN Reply(S, EarlyResponse(req, "safety",
                                Fixed("safety_refusal", <<>>, lang)))
    ELSE IF smalltalk_match(question) # ""
    THEN ChatSmalltalk(S, E, req, question, lang)
    ELSE ChatWithSession(S, E, req, question, lang)

\* lines 1017-1019: the rate check (limit is what _rate_limit_ok did)
ChatLimited(S, E, req, limit) ==
    IF ~limit.ok THEN TooManyRequests([S EXCEPT !.RATE_STATE = limit.state], req)
    ELSE ChatQuestion([S EXCEPT !.RATE_STATE = limit.state], E, req,
                      strip(req.question),
                      detect_language(strip(req.question)))

\* _chat_impl
_chat_impl(S, E, req) ==
    ChatLimited(S, E, req, _rate_limit_ok(S.RATE_STATE, req.ip, E.t))

\* chat
chat(S, E, req) == _chat_impl(S, E, req)

\* event_gen of chat_stream, in which _chat_impl runs after the typing
\* event (c is what it did). An exception of _chat_impl ends the stream
\* there: status is the status_code of the HTTPException raised, events the
\* events sent before it.
event_gen(c) ==
    IF c.resp.status # 200
    THEN Reply(c.state, [c.resp EXCEPT !.events = <<"typing">>])
    ELSE Reply(c.state, [c.resp EXCEPT !.events =
             <<"typing">>
             \o (IF IsEmptyAnswer(c.resp.answer) THEN <<>> ELSE <<"chunk">>)
             \o <<"done">>])

\* lines 1342-1344: the rate check of chat_stream
StreamLimited(S, E, req, limit) ==
    IF ~limit.ok THEN TooManyRequests([S EXCEPT !.RATE_STATE = limit.state], req)
    ELSE event_gen(_chat_impl([S EXCEPT !.RATE_STATE = limit.state], E, req))

\* chat_stream: its own rate check, then the event stream
chat_stream(S, E, req) ==
    StreamLimited(S, E, req, _rate_limit_ok(S.RATE_STATE, req.ip, E.t))

-----------------------------------------------------------------------------
(* build_index.py: embed_text with retry, and main, the resumable build     *)

DEFAULT_MAX_RETRIES == 5    \* max_retries: int = 5
DEFAULT_BASE_WAIT == 30     \* base_wait: int = 30

\* what client.models.embed_content does at one call: it returns the values,
\* or raises errors.ClientError with status_code 429, or errors.ClientError
\* with another status, or another exception
EmbedOutcomes == {"values", "429", "4xx", "error"}

\* a classification that takes every error for a rate-limit signal
IsRateLimited_any_error(out) == out # "values"

\* except errors.ClientError as e: if e.status_code == 429
IsRateLimited(out) == out = "429"

\* a wait that does not grow with the attempts
retry_wait_flat(base_wait, attempt) == base_wait

\* wait = base_wait * (attempt + 1)
retry_wait(base_wait, attempt) == base_wait * (attempt + 1)

\* an event of a call of embed_text: a provider call and what it did, or a
\* time.sleep and its seconds
CallEvent(out) == [ev |-> "call", out |-> out, secs |-> 0]
SleepEvent(secs) == [ev |-> "sleep", out |-> "", secs |-> secs]

RetryIdle == [pc |-> "idle", max_retries |-> 0, base_wait |-> 0,
              attempt |-> 0, log |-> <<>>, result |-> ""]

\* embed_text(text, max_retries, base_wait) up to the first pass of its
\* loop; range(max_retries) is empty when max_retries is 0
embed_retry_begin(max_retries, base_wait) ==
    IF max_retries > 0
    THEN [RetryIdle EXCEPT !.pc = "loop", !.max_retries = max_retries,
                           !.base_wait = base_wait]
    ELSE [RetryIdle EXCEPT !.pc = "done", !.max_retries = max_retries,
                           !.base_wait = base_wait,
                           !.result = "RuntimeError"]

\* the part of a pass after a rate-limited call: the sleep, then the next
\* pass, or RuntimeError when range(max_retries) is used up
embed_retry_continue(r, called) ==
    [r EXCEPT !.log = Append(called,
                             SleepEvent(retry_wait(r.base_wait, r.attempt))),
              !.attempt = @ + 1,
              !.pc = IF r.attempt + 1 < r.max_retries THEN "loop" ELSE "done",
              !.result = IF r.attempt + 1 < r.max_retries THEN ""
                         ELSE "RuntimeError"]

\* one pass of the loop of embed_text, in which the provider does out
embed_retry_pass(r, out) ==
    IF out = "values"
    THEN [r EXCEPT !.log = Append(@, CallEvent(out)), !.pc = "done",
                   !.result = "values"]
    ELSE IF IsRateLimited(out)
    THEN embed_retry_continue(r, Append(r.log, CallEvent(out)))
    ELSE [r EXCEPT !.log = Append(@, CallEvent(out)), !.pc = "done",
                   !.result = "raise"]

\* (law, article, heading, legal_text) of the articles of the database:
\* articles 2 and 3 were created with the same uu, pasal, title and
\* legal_text (and different explanations)
ArticleTuple(id) ==
    CASE id = 1 -> <<"uu22", "pasal106", "helm", "teks1">>
      [] id \in {2, 3} -> <<"uu22", "pasal287", "marka", "teks2">>
      [] OTHER -> <<"uu22", "pasal288", "stnk", "">>

\* the ids of the documents of an index, in order
DocIds(index) == [i \in DOMAIN index |-> index[i].id]

\* a build that takes no document of the old index for indexed
existing_ids_none(index) == {}

\* existing_ids = {item["id"] for item in index}
existing_ids_of(index) == Range(DocIds(index))

BuildIdle == [pc |-> "idle", articles |-> <<>>, pos |-> 0, index |-> <<>>,
              loaded |-> <<>>, called |-> {}, appended |-> <<>>,
              failed |-> {}]

\* main up to its loop: the active articles and the index loaded from
\* INDEX_PATH (the empty list stands for no file)
build_begin(status, file) ==
    [BuildIdle EXCEPT !.pc = "loop", !.articles = ActiveArticles(status),
                      !.pos = 1, !.index = file, !.loaded = file]

\* one pass of the loop of main up to the call of embed_text: the article
\* is skipped, or embed_text is called for it
build_pass(b) ==
    IF b.pos > Len(b.articles) THEN [b EXCEPT !.pc = "persist"]
    ELSE IF b.articles[b.pos] \in existing_ids_of(b.loaded)
            \/ ArticleIsi(b.articles[b.pos]) = <<>>
    THEN [b EXCEPT !.pos = @ + 1]
    ELSE [b EXCEPT !.pc = "embed"]

\* the rest of the pass, after embed_text ended as r: the document is
\* appended, or the exception leaves main (through finally: db.close())
build_embedded(b, r) ==
    LET id == b.articles[b.pos]
        isi == ArticleIsi(id)
        called == IF r.log = <<>> THEN b.called ELSE b.called \cup {id}
    IN  IF r.result = "values"
        THEN [b EXCEPT !.pc = "loop", !.pos = @ + 1, !.called = called,
                       !.index = Append(@, Doc(id, isi,
                                               ProviderEmbedding(isi))),
                       !.appended = Append(@, id)]
        ELSE [b EXCEPT !.pc = "raised", !.called = called,
                       !.failed = {id}]

-----------------------------------------------------------------------------
(* Initial values of each group of variables *)

NoCall == [op |-> "none", key |-> "k1", val |-> "v1", at |-> 0,
           before |-> <<>>, ret |-> None]

CacheVarsInit ==
    /\ cache = <<>>
    /\ cop = NoCall

RateVarsInit ==
    /\ RATE_STATE = <<>>
    /\ accepted = [ip \in Clients |-> <<>>]

\* the process starts with the index it loads from INDEX_PATH: here the
\* index of an earlier complete build
IndexVarsInit ==
    /\ INDEX = 0
    /\ INDEX_FILE = FullIndex
    /\ heap = [r \in {0} |-> INDEX_FILE]
    /\ art_status = [i \in ArticleIds |-> "berlaku"]

NoSearch == [op |-> "none", q |-> <<>>, k |-> 0, min_score |-> 0, ret |-> <<>>]

SearchVarsInit ==
    /\ EMBED_CACHE = <<>>
    /\ DOCS_CACHE = <<>>
    /\ sop = NoSearch
    /\ rebuilds = 0

\* the model names the environment configures: GEMINI_MODEL and
\* GEMINI_FALLBACK_MODELS
NoGen == [kind |-> "none", text |-> <<>>, model |-> <<>>, calls |-> <<>>,
          err |-> NoError]

\* the configurations of the generation chain that are tried
GenConfigs ==
    /\ GEN_MODEL \in {<<"m1">>, <<"m2", "-latest">>}
    /\ FALLBACK_MODELS \in {<<<<"m2">>, <<"m1">>>>,
                            <<<<"m2", "-latest">>, <<"m2">>>>}

\* the shape of the default configuration: a primary model and two
\* fallback models, none of them a "-latest" name
GenDefaultConfig ==
    /\ GEN_MODEL = <<"m1">>
    /\ FALLBACK_MODELS = <<<<"m2">>, <<"m3">>>>

SearchIdle == [pc |-> "idle", q |-> <<>>, it |-> 0, pos |-> 0,
               scored |-> <<>>]

RebuildIdle == [pc |-> "idle", arts |-> <<>>, pos |-> 0, ref |-> 0]

ThreadVarsInit ==
    /\ srch = SearchIdle
    /\ rb = RebuildIdle
    /\ published = {INDEX_FILE}

NoRequest == [endpoint |-> "", ip |-> "", question |-> <<>>]

\* an empty database of chats
ChatVarsInit ==
    /\ sessions = <<>>
    /\ messages = <<>>
    /\ meta = <<>>
    /\ PREF_CACHE = <<>>
    /\ chat_req = NoRequest
    /\ chat_resp = NoResponse
    /\ chat_count = 0

BuildVarsInit ==
    /\ retry = RetryIdle
    /\ build = BuildIdle

\* security.hash_password: the stored hash of a password
hash_password(password) == <<"pbkdf2_sha256", password>>

ResetThreads == {1, 2}

\* a worker thread that serves no reset_password request
ResetIdle == [pc |-> "idle", token |-> 0, new_password |-> "", token_id |-> 0,
              user_id |-> 0, at |-> 0, expires_at |-> 0]

\* one registered user, no reset token issued
AuthVarsInit ==
    /\ users = <<[id |-> 1, email |-> "u1@mail",
                  hashed_password |-> hash_password("p0")]>>
    /\ reset_tokens = <<>>
    /\ token_seq = 0
    /\ rst = [t \in ResetThreads |-> ResetIdle]
    /\ reset_log = <<>>

\* no history fetched and no session detail read yet
NoReplay == [op |-> "none", session_id |-> 0, status |-> 0, ret |-> <<>>]

NoIntentCall == [question |-> <<>>, loaded |-> FALSE, prediction |-> "",
                 ret |-> ""]

\* the functions called on their own are not called yet
CallVarsInit ==
    /\ icall = NoIntentCall
    /\ hist = NoReplay
    /\ AuthVarsInit

\* the state after the module is loaded, but for the configuration
Loaded ==
    /\ now = 0
    /\ BuildVarsInit
    /\ CallVarsInit
    /\ CacheVarsInit
    /\ RateVarsInit
    /\ IndexVarsInit
    /\ SearchVarsInit
    /\ gen = NoGen
    /\ ThreadVarsInit
    /\ ChatVarsInit

\* the provider configured, with the default shape of the model chain
Init ==
    /\ Loaded
    /\ GEMINI_ENABLED = TRUE
    /\ INTENT_MODEL = TRUE
    /\ GenDefaultConfig

\* the provider configured or not
InitEitherProvider ==
    /\ Loaded
    /\ GEMINI_ENABLED \in BOOLEAN
    /\ INTENT_MODEL = TRUE
    /\ GenDefaultConfig

\* the provider configured or not, with each model chain
InitGen ==
    /\ Loaded
    /\ GEMINI_ENABLED \in BOOLEAN
    /\ INTENT_MODEL = TRUE
    /\ GenConfigs

\* the provider configured or not, the intent model loaded or not
InitChat ==
    /\ Loaded
    /\ GEMINI_ENABLED \in BOOLEAN
    /\ INTENT_MODEL \in BOOLEAN
    /\ GenDefaultConfig

-----------------------------------------------------------------------------
(* The cache on its own: any sequence of get and set calls as time passes *)

CacheTick ==
    /\ now < MaxClock
    /\ now' = now + 1
    /\ UNCHANGED <<cacheVars, outsideCache>>

CacheGet ==
    \E k \in CacheKeys :
        LET r == TTLCache_get(cache, k, now) IN
        /\ cache' = r.data
        /\ cop' = [op |-> "get", key |-> k, val |-> "v1", at |-> now,
                   before |-> cache, ret |-> r.ret]
        /\ UNCHANGED <<now, outsideCache>>

CacheSet ==
    \E k \in CacheKeys, v \in CacheVals :
        /\ cache' = TTLCache_set(cache, k, v, now, CACHE_TTL, CACHE_MAX)
        /\ cop' = [op |-> "set", key |-> k, val |-> v, at |-> now,
                   before |-> cache, ret |-> None]
        /\ UNCHANGED <<now, outsideCache>>

CacheNext == CacheTick \/ CacheGet \/ CacheSet

SpecCache == Init /\ [][CacheNext]_vars

\* C9: TTLCache.get never returns an entry past its expiry: an entry set
\* with TTL t is returned by a get made less than t seconds after the set,
\* and a get made once t seconds have elapsed since the set is a miss.
C9_GetMissOnceTtlElapsed ==
    (cop.op = "get" /\ DictHas(cop.before, cop.key)) =>
        LET e == DictItem(cop.before, cop.key)
            setAt == e.exp - CACHE_TTL
        IN  IF cop.at - setAt >= CACHE_TTL
            THEN cop.ret = None
            ELSE cop.ret = Some(e.val)

\* C10: a set on a cache at capacity removes exactly one entry, one whose
\* expiry is the earliest, before it stores the key; a set on a cache below
\* capacity removes nothing; every entry that stays is unchanged.
C10_SetEvictsOldest ==
    (cop.op = "set") =>
        LET B == cop.before
            A == cache
            kept == DictKeys(A) \ {cop.key}
        IN  /\ DictHas(A, cop.key)
            /\ DictItem(A, cop.key).val = cop.val
            /\ DictItem(A, cop.key).exp = cop.at + CACHE_TTL
            /\ \A k \in kept : DictHas(B, k) /\ DictItem(A, k) = DictItem(B, k)
            /\ IF Len(B) >= CACHE_MAX
               THEN \E o \in DictKeys(B) :
                        /\ \A j \in DOMAIN B : DictItem(B, o).exp <= B[j].exp
                        /\ DictKeys(A) = (DictKeys(B) \ {o}) \cup {cop.key}
               ELSE DictKeys(A) = DictKeys(B) \cup {cop.key}

\* a set of a new key on a full cache whose entries expire at different times
C10_Witness ==
    /\ cop.op = "set"
    /\ Len(cop.before) >= CACHE_MAX
    /\ ~DictHas(cop.before, cop.key)
    /\ \E i, j \in DOMAIN cop.before : cop.before[i].exp < cop.before[j].exp
    /\ Len(cache) = CACHE_MAX

\* C29: after any sequence of get and set calls the cache holds at most
\* max_items entries, and a set on a key that is already present replaces
\* the value of that key and evicts no other entry.
C29_BoundedAndUpdateInPlace ==
    /\ Len(cache) <= CACHE_MAX
    /\ (cop.op = "set" /\ DictHas(cop.before, cop.key)) =>
          /\ DictKeys(cache) = DictKeys(cop.before)
          /\ DictItem(cache, cop.key).val = cop.val
          /\ \A k \in DictKeys(cop.before) \ {cop.key} :
                DictItem(cache, k) = DictItem(cop.before, k)

-----------------------------------------------------------------------------
(* The rate limiter on its own: requests of each client as time passes *)

RateTick ==
    /\ now + ClockStep <= MaxRateClock
    /\ now' = now + ClockStep
    /\ UNCHANGED <<rateVars, outsideRate>>

RateRequest ==
    \E ip \in Clients :
        LET r == _rate_limit_ok(RATE_STATE, ip, now) IN
        /\ RATE_STATE' = r.state
        /\ accepted' = IF r.ok
                       THEN [accepted EXCEPT ![ip] = LogAccept(@, now)]
                       ELSE accepted
        /\ UNCHANGED <<now, outsideRate>>

RateNext == RateTick \/ RateRequest

SpecRate == Init /\ [][RateNext]_vars

\* C7: for each client, at most MAX_REQUESTS_PER_MINUTE requests are
\* accepted in any rolling 60-second window.
C7_RollingWindowBudget ==
    \A ip \in Clients :
        Cardinality({i \in DOMAIN accepted[ip] : now - accepted[ip][i] < WINDOW})
            <= MAX_REQUESTS_PER_MINUTE

-----------------------------------------------------------------------------
(* Retrieval: searches, article updates and index rebuilds, each in one     *)
(* step, as time passes                                                     *)

Queries == {<<>>, <<1, 0>>, <<1, 1>>}   \* query embeddings
MinScores == {0, 60}                    \* min_score, in the unit of the scores

SearchTick ==
    /\ now < MaxSearchClock
    /\ now' = now + 1
    /\ UNCHANGED <<indexVars, searchVars, outsideSearch>>

\* search_top_k(query_embedding, k, min_score)
Search ==
    \E q \in Queries, k \in 0..MaxK, m \in MinScores :
        LET r == search_top_k(heap[INDEX], DOCS_CACHE, q, k, m, now) IN
        /\ DOCS_CACHE' = r.data
        /\ sop' = [op |-> "search", q |-> q, k |-> k, min_score |-> m,
                   ret |-> r.ret]
        /\ UNCHANGED <<now, indexVars, EMBED_CACHE, rebuilds, outsideSearch>>

\* update_article: the admin changes the status of an article
UpdateArticle ==
    \E id \in ToggledIds, st \in {"berlaku", "dicabut"} :
        /\ art_status[id] # st
        /\ art_status' = [art_status EXCEPT ![id] = st]
        /\ UNCHANGED <<now, heap, INDEX, INDEX_FILE, GEMINI_ENABLED,
                       searchVars, outsideSearch>>

\* rebuild_index_from_db, start to end: the new list is built, written to
\* INDEX_PATH and made the INDEX; the old list is no longer referenced
Rebuild ==
    \E fails \in SUBSET TextIds :
        /\ rebuilds < MaxRebuilds
        /\ LET r == RebuildLoop(ActiveArticles(art_status), 1, <<>>,
                                EMBED_CACHE, now, GEMINI_ENABLED, fails)
               ref == FreshRef(heap)
           IN  /\ heap' = [x \in {ref} |-> r.index]
               /\ INDEX' = ref
               /\ INDEX_FILE' = r.index
               /\ EMBED_CACHE' = r.data
               /\ sop' = [NoSearch EXCEPT !.op = "rebuild"]
               /\ rebuilds' = rebuilds + 1
               /\ UNCHANGED <<now, art_status, GEMINI_ENABLED, DOCS_CACHE,
                              outsideSearch>>

SearchNext == SearchTick \/ Search \/ UpdateArticle \/ Rebuild

SpecSearch == InitEitherProvider /\ [][SearchNext]_vars

\* search_similar(query): the module search_index ranks the documents of the
\* index file it loaded; embed_text(query) is the embedding the provider gives
SimilarQueries == (Queries \ {<<>>}) \cup {<<-1, -1>>}

SearchSimilar ==
    \E q \in SimilarQueries, k \in 0..MaxK :
        /\ sop' = [op |-> "similar", q |-> q, k |-> k, min_score |-> 0,
                   ret |-> search_similar(INDEX_FILE, q, k)]
        /\ UNCHANGED <<now, indexVars, EMBED_CACHE, DOCS_CACHE, rebuilds,
                       outsideSearch>>

\* the two searches over one index, as time passes
RankNext == SearchTick \/ Search \/ SearchSimilar

SpecRank == InitEitherProvider /\ [][RankNext]_vars

\* the position of a returned document in the index it was ranked from
IndexPos(index, d) == CHOOSE p \in DOMAIN index : index[p].id = d.id

\* the entry at position i of the index is ranked before the one at j
RankedBefore(index, q, i, j) ==
    LET si == cosine_similarity(q, index[i].embedding)
        sj == cosine_similarity(q, index[j].embedding)
    IN  si > sj \/ (si = sj /\ i < j)

\* ret is the ranking of index for q by descending score with equal scores
\* in index order, cut after limit documents and at the score m
StableRanked(ret, index, q, limit, m) ==
    LET above == {p \in DOMAIN index :
                    cosine_similarity(q, index[p].embedding) >= m}
        pos(i) == IndexPos(index, ret[i])
    IN  /\ \A i \in DOMAIN ret :
              /\ \E p \in above : index[p].id = ret[i].id
              /\ ret[i].score = cosine_similarity(q, index[pos(i)].embedding)
        /\ \A i, j \in DOMAIN ret :
              (i < j) => RankedBefore(index, q, pos(i), pos(j))
        /\ \A p \in above :
              (\A i \in DOMAIN ret : ret[i].id # index[p].id) =>
                  \A i \in DOMAIN ret : RankedBefore(index, q, pos(i), p)
        /\ Len(ret) = Min(limit, Cardinality(above))

\* C26: documents with equal score are returned in their index order: the
\* list a search computes is the one ranking of the index by descending
\* score and, among equal scores, by position in the index, so the same
\* index and query give the same list on every run.
C26_TiesKeepIndexOrder ==
    [][/\ (/\ sop'.op = "search"
            /\ now' = now
            /\ DOCS_CACHE' # DOCS_CACHE
            /\ ~TTLCache_get(DOCS_CACHE, DocsKey(sop'.q), now).ret.some) =>
              StableRanked(sop'.ret, heap[INDEX], sop'.q,
                           Max(sop'.k, 1), sop'.min_score)
       /\ (sop'.op = "similar") =>
              StableRanked(sop'.ret, INDEX_FILE, sop'.q, sop'.k, -100)
      ]_vars

\* a search returned two documents of equal score, in index order, and left
\* out none that the index ranks between them
C26_Witness ==
    /\ sop.op \in {"search", "similar"}
    /\ Len(sop.ret) = 2
    /\ sop.ret[1].score = sop.ret[2].score
    /\ sop.ret[1].id < sop.ret[2].id


\* C1: search_top_k returns at most k documents, each with score >=
\* min_score, in non-increasing score order, whatever searches came before.
C1_TopKThreshold ==
    (sop.op = "search") =>
        /\ Len(sop.ret) <= sop.k
        /\ \A i \in DOMAIN sop.ret : sop.ret[i].score >= sop.min_score
        /\ \A i, j \in DOMAIN sop.ret :
               (i < j) => sop.ret[i].score >= sop.ret[j].score

\* C2: while the index is the one loaded at startup, a search returns what
\* the same search returns in a run without DOCS_CACHE, whatever searches
\* came before.
C2_CacheTransparent ==
    (sop.op = "search" /\ rebuilds = 0) =>
        sop.ret = search_top_k(heap[INDEX], <<>>, sop.q, sop.k,
                               sop.min_score, now).ret

\* C3: after a rebuild, a search returns only documents of the index the
\* rebuild installed.
C3_NoOmittedDocAfterRebuild ==
    (sop.op = "search" /\ rebuilds > 0) =>
        \A i \in DOMAIN sop.ret :
            \E j \in DOMAIN heap[INDEX] : heap[INDEX][j].id = sop.ret[i].id

-----------------------------------------------------------------------------
(* The generation chain on its own: one call of generate_answer for every   *)
(* configuration and every behaviour of the provider                        *)

\* every model has at most two candidates
MaxCalls(models) == 2 * Len(models)

Generate ==
    /\ gen.kind = "none"
    /\ LET models == GEN_MODELS_of(GEN_MODEL, FALLBACK_MODELS) IN
       \E oracle \in [1..MaxCalls(models) -> Outcomes] :
           gen' = generate_answer(GEMINI_ENABLED, models, oracle)
    /\ UNCHANGED <<GEN_MODEL, FALLBACK_MODELS, outsideGen>>

GenNext == Generate

SpecGen == InitGen /\ [][GenNext]_vars

\* C5: an error that is neither a not-found-model error nor a quota/rate
\* error ends the chain: no model is called after it and generate_answer
\* raises that error.
C5_OtherErrorAborts ==
    \A n \in DOMAIN gen.calls :
        LET o == gen.calls[n].outcome IN
        (/\ o.kind = "error"
         /\ ~_is_not_found_model_error(o)
         /\ ~_is_quota_error(o)) =>
            /\ n = Len(gen.calls)
            /\ gen.kind = "raise"
            /\ gen.err.call = n

\* C6: the calls go through the primary model and then the fallback models
\* in their configured order, a model that has a "-latest" variant being
\* followed by it, and the first call that returns text is the last call:
\* its text and its model are what generate_answer returns.
C6_OrderAndFirstText ==
    LET calls == gen.calls
        models == GEN_MODELS_of(GEN_MODEL, FALLBACK_MODELS)
        \* the base model a call belongs to: a position of GEN_MODELS
        IsBase(n, b) == \/ calls[n].model = models[b]
                        \/ calls[n].model = Append(models[b], "-latest")
        goesOn(n) == \/ calls[n].outcome.kind = "empty"
                     \/ (/\ calls[n].outcome.kind = "error"
                         /\ \/ _is_not_found_model_error(calls[n].outcome)
                            \/ _is_quota_error(calls[n].outcome))
    IN  /\ (calls # <<>>) => calls[1].model = GEN_MODEL
        /\ \E base \in [DOMAIN calls -> DOMAIN models] :
              /\ \A n \in DOMAIN calls : IsBase(n, base[n])
              /\ \A n \in DOMAIN calls :
                    (n > 1) => base[n - 1] <= base[n]
              /\ \A n \in DOMAIN calls :
                    (n > 1 /\ base[n - 1] = base[n]) =>
                        /\ calls[n - 1].model = models[base[n]]
                        /\ calls[n].model = Append(models[base[n]], "-latest")
        /\ \A n \in DOMAIN calls :
              (goesOn(n) /\ ~EndsWithLatest(calls[n].model)) =>
                  /\ n < Len(calls)
                  /\ calls[n + 1].model = Append(calls[n].model, "-latest")
        /\ \A n \in DOMAIN calls :
              (calls[n].outcome.kind = "text") =>
                  /\ n = Len(calls)
                  /\ gen.kind = "return"
                  /\ gen.text = <<"text", n>>
                  /\ gen.model = calls[n].model
        /\ (gen.kind = "return") =>
              /\ calls # <<>>
              /\ calls[Len(calls)].outcome.kind = "text"

\* a fallback model's "-latest" variant answers after every earlier call
\* returned no text or failed
C6_Witness ==
    /\ gen.kind = "return"
    /\ Len(gen.calls) >= 4
    /\ EndsWithLatest(gen.model)
    /\ gen.model # Append(GEN_MODEL, "-latest")

-----------------------------------------------------------------------------
(* Searches while the index is rebuilt. _chat_impl runs search_top_k on the *)
(* event loop, admin_rebuild_index runs rebuild_index_from_db on a worker   *)
(* thread, so the steps of the two interleave. A list object stays in the   *)
(* heap while INDEX, the rebuild or the iterator of a search refers to it.  *)
(* The steps are taken within one reading of the clock.                     *)

\* the list objects still referenced, given the three references
Collect(h, index, s, r) ==
    LET live == {index}
                \cup (IF s.pc = "loop" THEN {s.it} ELSE {})
                \cup (IF r.pc \in {"loop", "persist", "swap"} THEN {r.ref}
                      ELSE {})
    IN  [x \in (DOMAIN h) \cap live |-> h[x]]

\* a rebuild that fills the list INDEX refers to
new_index_in_place(h, index) == index

\* new_index = []: the list object the rebuild fills
new_index_ref(h, index) == FreshRef(h)

\* lines 399-404: the empty checks and the cache lookup
SearchBegin ==
    \E q \in Queries :
        /\ srch.pc = "idle"
        /\ IF heap[INDEX] = <<>> \/ q = <<>>
           THEN /\ sop' = [op |-> "search", q |-> q, k |-> RAG_TOP_K,
                           min_score |-> RAG_MIN_SCORE, ret |-> <<>>]
                /\ UNCHANGED <<DOCS_CACHE, srch>>
           ELSE LET g == TTLCache_get(DOCS_CACHE, DocsKey(q), now) IN
                /\ DOCS_CACHE' = g.data
                /\ IF g.ret.some
                   THEN /\ sop' = [op |-> "search", q |-> q, k |-> RAG_TOP_K,
                                   min_score |-> RAG_MIN_SCORE,
                                   ret |-> g.ret.val]
                        /\ UNCHANGED srch
                   ELSE /\ srch' = [SearchIdle EXCEPT !.pc = "iter", !.q = q]
                        /\ UNCHANGED sop
        /\ UNCHANGED <<now, indexVars, EMBED_CACHE, rebuilds, rb, published,
                       outsideThreads>>

\* line 406, for doc in INDEX: the iterator is bound to the list object
\* INDEX refers to now
SearchIter ==
    /\ srch.pc = "iter"
    /\ srch' = [srch EXCEPT !.pc = "loop", !.it = INDEX, !.pos = 1]
    /\ UNCHANGED <<now, indexVars, searchVars, rb, published, outsideThreads>>

\* lines 406-409: the iterator yields the next document of its list, which
\* is scored, or the loop ends
SearchScore ==
    /\ srch.pc = "loop"
    /\ IF srch.pos <= Len(heap[srch.it])
       THEN LET doc == heap[srch.it][srch.pos] IN
            /\ srch' = [srch EXCEPT
                   !.pos = @ + 1,
                   !.scored = Append(@,
                       [s |-> cosine_similarity(srch.q, doc.embedding),
                        doc |-> doc])]
            /\ UNCHANGED heap
       ELSE /\ srch' = [srch EXCEPT !.pc = "finish"]
            /\ heap' = Collect(heap, INDEX, srch', rb)
    /\ UNCHANGED <<now, INDEX, INDEX_FILE, art_status, GEMINI_ENABLED,
                   searchVars, rb, published, outsideThreads>>

\* lines 410-418: sort, cut, threshold, store in DOCS_CACHE, return
SearchFinish ==
    /\ srch.pc = "finish"
    /\ LET top == TopCut(SortByScoreDesc(srch.scored), RAG_TOP_K)
           kept == SelectSeq(top, LAMBDA x : x.s >= RAG_MIN_SCORE)
           out == [i \in DOMAIN kept |-> WithScore(kept[i])]
       IN  /\ DOCS_CACHE' = TTLCache_set(DOCS_CACHE, DocsKey(srch.q), out, now,
                                         DOCS_TTL, DOCS_MAX)
           /\ sop' = [op |-> "search", q |-> srch.q, k |-> RAG_TOP_K,
                      min_score |-> RAG_MIN_SCORE, ret |-> out]
    /\ srch' = SearchIdle
    /\ UNCHANGED <<now, indexVars, EMBED_CACHE, rebuilds, rb, published,
                   outsideThreads>>

\* lines 940-946: the query for the active articles, and new_index = []
RebuildBegin ==
    /\ rb.pc = "idle"
    /\ rebuilds < MaxRebuilds
    /\ LET ref == new_index_ref(heap, INDEX) IN
       /\ rb' = [pc |-> "loop", arts |-> ActiveArticles(art_status),
                 pos |-> 1, ref |-> ref]
       /\ heap' = heap @@ (ref :> <<>>)
    /\ rebuilds' = rebuilds + 1
    /\ UNCHANGED <<now, INDEX, INDEX_FILE, art_status, GEMINI_ENABLED,
                   EMBED_CACHE, DOCS_CACHE, sop, srch, published,
                   outsideThreads>>

\* lines 947-969: one article is embedded and appended to new_index
RebuildEmbed ==
    /\ rb.pc = "loop"
    /\ IF rb.pos > Len(rb.arts)
       THEN /\ rb' = [rb EXCEPT !.pc = "persist"]
            /\ UNCHANGED <<heap, EMBED_CACHE>>
       ELSE \E fail \in BOOLEAN :
               LET r == RebuildStep(heap[rb.ref], EMBED_CACHE,
                                    rb.arts[rb.pos], now, GEMINI_ENABLED, fail)
               IN  /\ heap' = [heap EXCEPT ![rb.ref] = r.index]
                   /\ EMBED_CACHE' = r.data
                   /\ rb' = [rb EXCEPT !.pos = @ + 1]
    /\ UNCHANGED <<now, INDEX, INDEX_FILE, art_status, GEMINI_ENABLED,
                   DOCS_CACHE, sop, rebuilds, srch, published, outsideThreads>>

\* lines 970-972: new_index is written to INDEX_PATH
RebuildPersist ==
    /\ rb.pc = "persist"
    /\ INDEX_FILE' = heap[rb.ref]
    /\ rb' = [rb EXCEPT !.pc = "swap"]
    /\ UNCHANGED <<now, heap, INDEX, art_status, GEMINI_ENABLED, searchVars,
                   srch, published, outsideThreads>>

\* lines 973-975: INDEX = new_index
RebuildSwap ==
    /\ rb.pc = "swap"
    /\ INDEX' = rb.ref
    /\ rb' = RebuildIdle
    /\ published' = published \cup {heap[rb.ref]}
    /\ heap' = Collect(heap, rb.ref, srch, rb')
    /\ sop' = [NoSearch EXCEPT !.op = "rebuild"]
    /\ UNCHANGED <<now, INDEX_FILE, art_status, GEMINI_ENABLED, EMBED_CACHE,
                   DOCS_CACHE, rebuilds, srch, outsideThreads>>

ThreadsUpdateArticle ==
    /\ UpdateArticle
    /\ UNCHANGED threadVars

ThreadsNext ==
    \/ SearchBegin \/ SearchIter \/ SearchScore \/ SearchFinish
    \/ RebuildBegin \/ RebuildEmbed \/ RebuildPersist \/ RebuildSwap
    \/ ThreadsUpdateArticle

SpecThreads == InitEitherProvider /\ [][ThreadsNext]_vars

\* the documents a search has scored so far, in order
ScoredDocs == [i \in DOMAIN srch.scored |-> srch.scored[i].doc]

\* C4: a search that runs while the index is rebuilt scores the documents
\* of one snapshot only: the list it iterates is, all along, a list INDEX
\* has referred to, unchanged, and the documents scored are that list's.
C4_SearchScoresOneSnapshot ==
    /\ (srch.pc = "loop") =>
          /\ heap[srch.it] \in published
          /\ srch.pos - 1 <= Len(heap[srch.it])
          /\ ScoredDocs = SubSeq(heap[srch.it], 1, srch.pos - 1)
    /\ (srch.pc = "finish") => ScoredDocs \in published
    /\ heap[INDEX] \in published

\* a search that began on the old index ends after the rebuild installed a
\* different index
C4_Witness ==
    /\ srch.pc = "finish"
    /\ ScoredDocs # <<>>
    /\ ScoredDocs # heap[INDEX]
    /\ rebuilds > 0
    /\ rb.pc = "idle"

-----------------------------------------------------------------------------
(* The chat endpoints: requests to /chat and /chat-stream, each handled     *)
(* from start to end                                                        *)

Questions ==
    {<<>>, <<" ">>,
     <<"ignore", "previous", "instruksi">>,
     <<"cara", "menghindari", "tilang">>,
     <<"halo">>,
     <<"thanks", "jawab", "singkat">>,
     <<"jawab", "singkat", "aja">>,
     <<"perpanjang", "sim">>,
     <<"resep", "nasi", "goreng">>,
     <<"kena", "tilang">>,
     <<"pasal", "helm", "motor", "apa">>,
     <<"denda", "parkir", "bahu", "jalan">>,
     <<"tips", "berkendara", "motor", "malam">>}

ChatClients == {"ip1"}                  \* the clients that chat
Usernames == {<<>>, <<"u1">>}           \* req.username: None or a name
Predictions == {"tips_umum", "butuh_pasal", "raise"}

\* what the generation provider does: the same at every call of a request
ChatOracles(models) ==
    {[n \in 1..MaxCalls(models) |-> o] : o \in Outcomes}

Requests(endpoint) ==
    [endpoint : {endpoint}, ip : ChatClients, question : Questions,
     username : Usernames, session_id : 0..MaxSessionId]

ChatState ==
    [RATE_STATE |-> RATE_STATE, sessions |-> sessions, messages |-> messages,
     meta |-> meta, PREF_CACHE |-> PREF_CACHE, EMBED_CACHE |-> EMBED_CACHE,
     DOCS_CACHE |-> DOCS_CACHE, store_fail |-> {}, wrote |-> {}]

ChatEnv(prediction, embed_fail, oracle) ==
    [t |-> now, index |-> heap[INDEX], enabled |-> GEMINI_ENABLED,
     models |-> GEN_MODELS_of(GEN_MODEL, FALLBACK_MODELS),
     loaded |-> INTENT_MODEL, prediction |-> prediction,
     embed_fail |-> embed_fail, oracle |-> oracle,
     session_fail |-> FALSE, prefs_fail |-> FALSE, messages_fail |-> FALSE]

\* the state and the response a handler leaves
HandledState(request, c) ==
    /\ RATE_STATE' = c.state.RATE_STATE
    /\ sessions' = c.state.sessions
    /\ messages' = c.state.messages
    /\ meta' = c.state.meta
    /\ PREF_CACHE' = c.state.PREF_CACHE
    /\ EMBED_CACHE' = c.state.EMBED_CACHE
    /\ DOCS_CACHE' = c.state.DOCS_CACHE
    /\ chat_req' = [endpoint |-> request.endpoint, ip |-> request.ip,
                    question |-> request.question]
    /\ chat_resp' = c.resp
    /\ chat_count' = chat_count + 1

Handled(request, c) ==
    /\ HandledState(request, c)
    /\ UNCHANGED outsideChat

\* the writes of the request that the store refuses
StoreFail(E) ==
    (IF E.session_fail THEN {"write_session"} ELSE {})
    \cup (IF E.prefs_fail THEN {"write_prefs"} ELSE {})
    \cup (IF E.messages_fail THEN {"write_messages"} ELSE {})

\* the route of the request's endpoint
RouteTo(S, E, request) ==
    IF request.endpoint = "chat" THEN chat(S, E, request)
                                 ELSE chat_stream(S, E, request)

Route(S, E, request) ==
    RouteTo([S EXCEPT !.store_fail = StoreFail(E)], E, request)

\* The providers a request may reach, in the order _chat_impl reaches them:
\* the call, the field of the environment that says what the provider does
\* when called, and what it may do.
Providers(models) ==
    <<[call |-> "intent_model", field |-> "prediction", does |-> Predictions],
      [call |-> "embed", field |-> "embed_fail", does |-> BOOLEAN],
      [call |-> "generate", field |-> "oracle", does |-> ChatOracles(models)]>>

\* What the route may leave, with every behaviour of the providers in
\* pending. A request that does not call one of them is handled the same
\* whatever that one would do, so it is handled with the behaviour E has.
RECURSIVE Results(_, _, _)
Results(request, E, pending) ==
    UNION {IF pending = <<>> THEN {c}
           ELSE IF Head(pending).call \notin c.resp.did
           THEN Results(request, E, Tail(pending))
           ELSE UNION {Results(request,
                               [E EXCEPT ![Head(pending).field] = d],
                               Tail(pending)) : d \in Head(pending).does}
           : c \in {Route(ChatState, E, request)}}

\* a request, handled from start to end
Serve(request) ==
    LET models == GEN_MODELS_of(GEN_MODEL, FALLBACK_MODELS)
        text == [n \in 1..MaxCalls(models) |-> [kind |-> "text", msg |-> {}]]
    IN  \E c \in Results(request, ChatEnv("tips_umum", FALSE, text),
                         Providers(models)) :
            Handled(request, c)

\* the providers and the commits a request may reach, in the order
\* _chat_impl reaches them
StoreProviders(models) ==
    <<[call |-> "write_session", field |-> "session_fail", does |-> BOOLEAN],
      [call |-> "write_prefs", field |-> "prefs_fail", does |-> BOOLEAN]>>
    \o Providers(models)
    \o <<[call |-> "write_messages", field |-> "messages_fail",
          does |-> BOOLEAN]>>

\* a request, handled from start to end by a process whose store may
\* refuse any commit
ServeStore(request) ==
    LET models == GEN_MODELS_of(GEN_MODEL, FALLBACK_MODELS)
        text == [n \in 1..MaxCalls(models) |-> [kind |-> "text", msg |-> {}]]
    IN  \E c \in Results(request, ChatEnv("tips_umum", FALSE, text),
                         StoreProviders(models)) :
            Handled(request, c)

\* POST /chat
Chat ==
    /\ chat_count < MaxChatRequests
    /\ \E request \in Requests("chat") : Serve(request)

\* POST /chat-stream
ChatStream ==
    /\ chat_count < MaxChatRequests
    /\ \E request \in Requests("chat-stream") : Serve(request)

ChatNext == Chat \/ ChatStream

SpecChat == InitChat /\ [][ChatNext]_vars

\* C8: a chat request that exceeds the per-client budget is rejected (429),
\* and a rejected request makes no session lookup, embedding, retrieval or
\* generation call and leaves sessions, messages, preferences and the
\* caches as they were.
C8_RejectedBeforeAnyWork ==
    [][(chat_count' = chat_count + 1) =>
          LET cur == RateGet(RATE_STATE, chat_req'.ip, now)
              over == /\ now - cur.start < WINDOW
                      /\ cur.count >= MAX_REQUESTS_PER_MINUTE
          IN  /\ over => chat_resp'.status = 429
              /\ (chat_resp'.status = 429) =>
                    /\ chat_resp'.did = {}
                    /\ UNCHANGED <<sessions, messages, meta, PREF_CACHE,
                                   EMBED_CACHE, DOCS_CACHE>>
      ]_vars

\* a question that needs retrieval and generation is rejected by
\* /chat-stream before the stream opens, after an earlier request of the
\* client was answered and persisted
C8_Witness ==
    /\ chat_resp.status = 429
    /\ chat_req.endpoint = "chat-stream"
    /\ chat_resp.events = <<>>
    /\ chat_req.question = <<"pasal", "helm", "motor", "apa">>
    /\ messages # <<>>
    /\ RATE_STATE[chat_req.ip].count >= MAX_REQUESTS_PER_MINUTE

\* C11: the response of a chat request has sources only when the intent is
\* butuh_pasal and retrieval returned at least one document that was put
\* in the generation context; every path that answers before generation
\* (rejection, block, smalltalk, preference, FAQ, guardrail) has none, and
\* the path where generation fails obeys the same rule.
C11_SourcesOnlyForRetrievedArticles ==
    (chat_resp.sources # <<>>) =>
        /\ chat_resp.intent = "butuh_pasal"
        /\ chat_resp.mode = "answer"
        /\ {"embed", "search", "generate"} \subseteq chat_resp.did
        /\ chat_resp.docs # <<>>
        /\ chat_resp.context # <<>>
        /\ \E i \in DOMAIN chat_resp.sources :
               chat_resp.sources[i].id = chat_resp.context[1]

\* generation failed for a butuh_pasal question whose documents were
\* retrieved: the response carries the sources with the apology
C11_Witness ==
    /\ chat_resp.sources # <<>>
    /\ chat_resp.failed = {"generate"}
    /\ chat_resp.intent = "butuh_pasal"
    /\ chat_resp.status = 200

\* C12: when the intent is butuh_pasal and documents were retrieved and
\* used, the sources of the response are exactly the documents that
\* build_context put in the generation context: no document dropped by the
\* character budget is among the sources, and none in the context is
\* missing from them.
C12_SourcesAreTheContext ==
    (/\ chat_resp.intent = "butuh_pasal"
     /\ chat_resp.context # <<>>
     /\ chat_resp.failed = {}) =>
        {chat_resp.sources[i].id : i \in DOMAIN chat_resp.sources}
            = {chat_resp.context[i] : i \in DOMAIN chat_resp.context}

\* C14: a chat request during which the embedding provider or the
\* generation provider fails is still answered: status 200, an answer that
\* is not empty (the apology when generation failed, the guardrail when a
\* butuh_pasal question has no embedding), the two messages persisted and
\* the stream ended by its done event; and the request that comes after it
\* is served as any other (answered, or rejected by the rate limit).
C14_ProviderFailureIsAnswered ==
    [][(chat_count' = chat_count + 1) =>
          /\ (chat_resp'.failed # {}) =>
                /\ chat_resp'.status = 200
                /\ ~IsEmptyAnswer(chat_resp'.answer)
                /\ ("generate" \in chat_resp'.failed) =>
                       chat_resp'.answer.fixed \in {"ai_busy", "ai_failed"}
                /\ ("embed" \in chat_resp'.failed
                        /\ chat_resp'.intent = "butuh_pasal") =>
                       chat_resp'.answer.fixed = "guardrail"
                /\ Len(messages') = Len(messages) + 2
                /\ messages'[Len(messages')].content = chat_resp'.answer
                /\ (chat_req'.endpoint = "chat-stream") =>
                       chat_resp'.events = <<"typing", "chunk", "done">>
          /\ (chat_resp.failed # {}) => chat_resp'.status \in {200, 429}
      ]_vars

\* a request is answered by a generated text after the request before it
\* was answered by the apology for a generation that failed
C14_Witness ==
    /\ chat_resp.status = 200
    /\ chat_resp.failed = {}
    /\ chat_resp.model_used # <<>>
    /\ Len(messages) = 4
    /\ messages[2].content.fixed = "ai_failed"

\* C23: every response a chat request returns has an answer that is not
\* empty: on the paths that answer before retrieval, on the guardrail, after
\* a generation cut to the verbosity, and after a generation that failed.
C23_AnswerNeverEmpty ==
    (chat_resp.status = 200) =>
        /\ ~IsEmptyAnswer(chat_resp.answer)
        /\ (chat_resp.answer.fixed = "") =>
               /\ chat_resp.mode = "answer"
               /\ StripBlank(chat_resp.answer.text) # <<>>
        /\ (chat_req.endpoint = "chat-stream") =>
               chat_resp.events = <<"typing", "chunk", "done">>

\* the text of four sentences generated for a butuh_pasal question was cut
\* to its first two sentences and its summary line, for a session that
\* asked for short answers
C23_Witness ==
    /\ chat_resp.status = 200
    /\ chat_resp.answer.fixed = ""
    /\ chat_resp.answer.short
    /\ chat_resp.answer.text = <<"pakai", "helm.", "itu", "wajib.", "\n", "\n",
                                 "intinya:", "tetap", "aman.">>
    /\ chat_resp.intent = "butuh_pasal"
    /\ chat_resp.sources # <<>>

\* C25: an empty question (empty or only whitespace) is answered by the
\* fixed prompt-for-input message: no embedding or generation call is made,
\* no session is created, no message is persisted and the caches are left
\* as they were.
C25_EmptyQuestionShortCircuits ==
    [][(/\ chat_count' = chat_count + 1
        /\ strip(chat_req'.question) = <<>>
        /\ chat_resp'.status # 429) =>
          /\ chat_resp'.status = 200
          /\ chat_resp'.answer.fixed = "ask_question"
          /\ chat_resp'.did = {}
          /\ chat_resp'.sources = <<>>
          /\ UNCHANGED <<sessions, messages, meta, PREF_CACHE, EMBED_CACHE,
                         DOCS_CACHE>>
      ]_vars

\* a question of whitespace only is answered by the fixed message, in a
\* process that holds a session and its two messages from a request before
C25_Witness ==
    /\ chat_req.question = <<" ">>
    /\ chat_resp.status = 200
    /\ chat_resp.answer.fixed = "ask_question"
    /\ chat_resp.did = {}
    /\ Len(sessions) = 1
    /\ Len(messages) = 2

\* C28: a chat request, sent to /chat or to /chat-stream, raises the
\* counter of its client by exactly one, so that a client under its budget
\* is served through either endpoint.
C28_OneRequestOneCount ==
    [][(chat_count' = chat_count + 1) =>
          LET cur == RateGet(RATE_STATE, chat_req'.ip, now)
              count == IF now - cur.start >= WINDOW THEN 0 ELSE cur.count
          IN  (count < MAX_REQUESTS_PER_MINUTE) =>
                  /\ chat_resp'.status # 429
                  /\ RateGet(RATE_STATE', chat_req'.ip, now).count
                         = count + 1
      ]_vars

-----------------------------------------------------------------------------
(* The chat endpoints over a store that may refuse any commit               *)

\* POST /chat
ChatStore ==
    /\ chat_count < MaxStoreRequests
    /\ \E request \in Requests("chat") : ServeStore(request)

\* POST /chat-stream
ChatStreamStore ==
    /\ chat_count < MaxStoreRequests
    /\ \E request \in Requests("chat-stream") : ServeStore(request)

ChatStoreNext == ChatStore \/ ChatStreamStore

SpecChatStore == InitChat /\ [][ChatStoreNext]_vars

\* C15: a commit that fails while the request writes its session, its
\* preferences or its two messages is swallowed: the request still returns
\* its response (status 200) with the answer it computed.
C15_StoreFailureIsSwallowed ==
    ({"write_session", "write_prefs", "write_messages"} \cap chat_resp.did
         # {}) =>
        /\ chat_resp.status = 200
        /\ ~IsEmptyAnswer(chat_resp.answer)

\* C30: a chat request persists no message or exactly one user message
\* followed by one assistant message: the empty-question, prompt-injection
\* and safety-refusal paths create no session and persist no message, a
\* request that returns no response persists no message, and every other
\* path adds the pair (question, returned answer) to the session named in
\* the response.
C30_NothingOrThePair ==
    [][(chat_count' = chat_count + 1) =>
          LET sid == chat_resp'.session_id
              pair == <<[session_id |-> sid, role |-> "user",
                         content |-> UserText(strip(chat_req'.question))],
                        [session_id |-> sid, role |-> "assistant",
                         content |-> chat_resp'.answer]>>
          IN  /\ (chat_resp'.status # 200) => messages' = messages
              /\ (chat_resp'.status = 200
                      /\ chat_resp'.mode \in {"", "safety"}) =>
                    UNCHANGED <<sessions, messages>>
              /\ (chat_resp'.status = 200
                      /\ chat_resp'.mode \notin {"", "safety"}) =>
                    /\ messages' = messages \o pair
                    /\ sid \in DOMAIN sessions'
      ]_vars

\* the second request of a session added its question and the generated
\* answer it returned after the two messages of the first
C30_Witness ==
    /\ chat_resp.status = 200
    /\ chat_resp.mode = "answer"
    /\ chat_resp.model_used # <<>>
    /\ Len(sessions) = 1
    /\ Len(messages) = 4
    /\ \A i \in DOMAIN messages : messages[i].session_id = 1
    /\ messages[3].content = UserText(strip(chat_req.question))
    /\ messages[4].content = chat_resp.answer
    /\ messages[4].role = "assistant"

-----------------------------------------------------------------------------
(* The chat endpoints of a process that found its index file, or found     *)
(* none and serves with INDEX = [] (main.py lines 84-92)                    *)

InitChatIndex ==
    /\ now = 0
    /\ BuildVarsInit
    /\ CallVarsInit
    /\ CacheVarsInit
    /\ RateVarsInit
    /\ INDEX = 0
    /\ INDEX_FILE \in {FullIndex, <<>>}
    /\ heap = [r \in {0} |-> INDEX_FILE]
    /\ art_status = [i \in ArticleIds |-> "berlaku"]
    /\ SearchVarsInit
    /\ gen = NoGen
    /\ ThreadVarsInit
    /\ ChatVarsInit
    /\ GEMINI_ENABLED \in BOOLEAN
    /\ INTENT_MODEL = TRUE
    /\ GenDefaultConfig

SpecChatIndex == InitChatIndex /\ [][ChatNext]_vars

\* C13: when the intent is butuh_pasal and retrieval yields no document
\* (the index is empty, the embedding failed, or every score of the top k
\* is below min_score), the request answers with the guardrail message,
\* without sources, and makes no generation call.
C13_NoDocumentNoGeneration ==
    (chat_resp.intent = "butuh_pasal" /\ chat_resp.docs = <<>>) =>
        /\ chat_resp.status = 200
        /\ chat_resp.answer.fixed # ""
        /\ chat_resp.sources = <<>>
        /\ "generate" \notin chat_resp.did
        /\ chat_resp.gen_calls = 0
        /\ ("embed" \in chat_resp.did) =>
               /\ chat_resp.mode = "guardrail"
               /\ chat_resp.answer.fixed = "guardrail"

\* the guardrail answers a butuh_pasal question whose embedding was
\* searched in an empty index, after an earlier request of the session was
\* answered by the guardrail too
C13_Witness ==
    /\ chat_resp.mode = "guardrail"
    /\ chat_resp.intent = "butuh_pasal"
    /\ "search" \in chat_resp.did
    /\ chat_resp.failed = {}
    /\ heap[INDEX] = <<>>
    /\ \E i \in DOMAIN messages : messages[i].content.fixed = "guardrail"
    /\ Len(messages) >= 4

-----------------------------------------------------------------------------
(* build_index.embed_text on its own: calls with any max_retries up to      *)
(* MaxRetries and a base_wait of BaseWaits, against a provider that does    *)
(* anything at each call                                                    *)

BaseWaits == {1, DEFAULT_BASE_WAIT}

\* embed_text(text, max_retries, base_wait) is called
RetryBegin ==
    /\ retry.pc \in {"idle", "done"}
    /\ \E m \in 0..MaxRetries, w \in BaseWaits :
           retry' = embed_retry_begin(m, w)
    /\ UNCHANGED <<build, outsideBuild>>

\* one pass of the loop of embed_text
RetryPass ==
    /\ retry.pc = "loop"
    /\ \E out \in EmbedOutcomes : retry' = embed_retry_pass(retry, out)
    /\ UNCHANGED <<build, outsideBuild>>

RetryNext == RetryBegin \/ RetryPass

SpecRetry == Init /\ [][RetryNext]_vars

\* the provider calls of the running call of embed_text, in order
RetryCalls == SelectSeq(retry.log, LAMBDA e : e.ev = "call")

\* C19: embed_text calls the provider at most max_retries times; the wait
\* that follows the i-th call, a rate-limited one, is base_wait * i, and
\* there is no other wait; a call of embed_text whose max_retries attempts
\* were all rate-limited has ended with RuntimeError.
C19_BoundedLinearBackoff ==
    /\ Len(RetryCalls) <= retry.max_retries
    /\ \A j \in DOMAIN retry.log :
           (retry.log[j].ev = "sleep") =>
               /\ j > 1
               /\ retry.log[j - 1].ev = "call"
               /\ IsRateLimited(retry.log[j - 1].out)
               /\ retry.log[j].secs
                      = retry.base_wait
                        * Len(SelectSeq(SubSeq(retry.log, 1, j),
                                        LAMBDA e : e.ev = "call"))
    /\ (/\ retry.pc # "idle"
        /\ \A i \in DOMAIN RetryCalls : IsRateLimited(RetryCalls[i].out)
        /\ Len(RetryCalls) = retry.max_retries)
           => (retry.pc = "done" /\ retry.result = "RuntimeError")

\* the default five attempts were all rate-limited: five calls, waits of
\* 30, 60, 90, 120, 150 seconds, RuntimeError
C19_Witness ==
    /\ retry.pc = "done"
    /\ retry.max_retries = DEFAULT_MAX_RETRIES
    /\ retry.base_wait = DEFAULT_BASE_WAIT
    /\ Len(RetryCalls) = DEFAULT_MAX_RETRIES
    /\ retry.result = "RuntimeError"
    /\ retry.log[Len(retry.log)] = SleepEvent(150)

\* C20: a provider error that is not a rate-limit signal ends the call of
\* embed_text at once with that error: it is the last event of the call,
\* with no wait and no provider call after it.
C20_OtherErrorNotRetried ==
    \A j \in DOMAIN retry.log :
        (/\ retry.log[j].ev = "call"
         /\ retry.log[j].out # "values"
         /\ retry.log[j].out # "429")
            => /\ j = Len(retry.log)
               /\ retry.pc = "done"
               /\ retry.result = "raise"

\* the third attempt, after two rate-limited ones, gets a client error that
\* is not 429
C20_Witness ==
    /\ retry.pc = "done"
    /\ retry.result = "raise"
    /\ Len(RetryCalls) = 3
    /\ RetryCalls[3].out = "4xx"
    /\ retry.max_retries = DEFAULT_MAX_RETRIES

-----------------------------------------------------------------------------
(* build_index.main: runs of the script against the articles of the        *)
(* database and the index file an earlier run or rebuild left, with a      *)
(* provider that does anything at each call                                *)

\* the index files an earlier build left when fewer articles were active
\* (the empty list stands for no file)
PersistedIndexes == {SubSeq(FullIndex, 1, n) : n \in 0..Len(FullIndex)}

\* the build script finds the database and the index file in any of these
\* states
InitBuild ==
    /\ now = 0
    /\ BuildVarsInit
    /\ CallVarsInit
    /\ CacheVarsInit
    /\ RateVarsInit
    /\ INDEX = 0
    /\ INDEX_FILE \in PersistedIndexes
    /\ heap = [r \in {0} |-> INDEX_FILE]
    /\ art_status \in {st \in [ArticleIds -> {"berlaku", "dicabut"}] :
                          \A i \in ArticleIds \ ToggledIds : st[i] = "berlaku"}
    /\ SearchVarsInit
    /\ gen = NoGen
    /\ ThreadVarsInit
    /\ ChatVarsInit
    /\ GEMINI_ENABLED = TRUE
    /\ INTENT_MODEL = TRUE
    /\ GenDefaultConfig

\* python build_index.py: main up to its loop
BuildBegin ==
    /\ build.pc \in {"idle", "done", "raised"}
    /\ build' = build_begin(art_status, INDEX_FILE)
    /\ retry' = RetryIdle
    /\ UNCHANGED outsideBuild

\* a pass of the loop of main up to embed_text(isi), which it calls with
\* the default max_retries and base_wait
BuildPass ==
    /\ build.pc = "loop"
    /\ build' = build_pass(build)
    /\ retry' = IF build'.pc = "embed"
                THEN embed_retry_begin(DEFAULT_MAX_RETRIES, DEFAULT_BASE_WAIT)
                ELSE retry
    /\ UNCHANGED outsideBuild

\* a pass of the loop of embed_text, called by main
BuildRetryPass ==
    /\ build.pc = "embed"
    /\ retry.pc = "loop"
    /\ \E out \in EmbedOutcomes : retry' = embed_retry_pass(retry, out)
    /\ UNCHANGED <<build, outsideBuild>>

\* embed_text returns or raises into main
BuildEmbedded ==
    /\ build.pc = "embed"
    /\ retry.pc = "done"
    /\ build' = build_embedded(build, retry)
    /\ retry' = RetryIdle
    /\ UNCHANGED outsideBuild

\* json.dump(index, f): the index file is written
BuildPersist ==
    /\ build.pc = "persist"
    /\ INDEX_FILE' = build.index
    /\ build' = [build EXCEPT !.pc = "done"]
    /\ UNCHANGED <<retry, now, cacheVars, rateVars, heap, INDEX, art_status,
                   GEMINI_ENABLED, searchVars, genVars, threadVars, chatVars,
                   intentVars, histVars, authVars>>

BuildNext ==
    \/ BuildBegin \/ BuildPass \/ BuildRetryPass \/ BuildEmbedded
    \/ BuildPersist

SpecBuild == InitBuild /\ [][BuildNext]_vars

\* the active articles of the running build that have a text
BuildSources ==
    {id \in Range(build.articles) : ArticleIsi(id) # <<>>}

\* C16: a run of the build in which the provider failed for one document
\* ends with the other documents in the index file: those embedded before
\* the failure and those that come after it.
C16_BuildSurvivesEmbeddingFailure ==
    (build.pc \in {"done", "raised"} /\ build.failed # {}) =>
        \A id \in BuildSources \ build.failed :
            id \in existing_ids_of(INDEX_FILE)

\* C17: a run of the build never calls the provider for a document whose id
\* is in the index it loaded, and a run that ends leaves the loaded index
\* followed by the documents of the other active articles; from an index of
\* documents 1 and 2 and the articles 1, 2, 3 it calls the provider for
\* document 3 only and leaves documents 1, 2, 3.
C17_ResumableBuild ==
    /\ build.called \cap Range(DocIds(build.loaded)) = {}
    /\ (build.pc = "embed" /\ retry.pc # "idle") =>
           build.articles[build.pos] \notin Range(DocIds(build.loaded))
    /\ (build.pc = "done") =>
           /\ SubSeq(INDEX_FILE, 1, Len(build.loaded)) = build.loaded
           /\ Range(DocIds(INDEX_FILE))
                  = Range(DocIds(build.loaded)) \cup BuildSources
           /\ (/\ DocIds(build.loaded) = <<1, 2>>
               /\ BuildSources = {1, 2, 3})
                  => /\ DocIds(INDEX_FILE) = <<1, 2, 3>>
                     /\ build.called = {3}

\* the run of the example, ended
C17_Witness ==
    /\ build.pc = "done"
    /\ DocIds(build.loaded) = <<1, 2>>
    /\ BuildSources = {1, 2, 3}
    /\ DocIds(INDEX_FILE) = <<1, 2, 3>>
    /\ build.called = {3}

\* C18: the index a build leaves has no two documents with the same id and
\* no two documents with the same (law, article, heading, legal_text).
C18_UniqueIdsAndTuples ==
    (build.pc = "done") =>
        \A i, j \in DOMAIN INDEX_FILE :
            (i # j) => /\ INDEX_FILE[i].id # INDEX_FILE[j].id
                       /\ ArticleTuple(INDEX_FILE[i].id)
                              # ArticleTuple(INDEX_FILE[j].id)

-----------------------------------------------------------------------------
(* predict_intent on its own: any question, the trained model loaded or    *)
(* not, predicting any label or raising                                     *)

\* questions with each of the hukum_keywords, beside the questions of the
\* chat
IntentQuestions ==
    Questions \cup
    {<<"uu", "nomor", "22">>, <<"uu", "lalu", "lintas">>, <<"baca", "uu">>,
     <<"undang-undang", "lalu", "lintas">>, <<"berapa", "denda", "parkir">>,
     <<"sanksi", "melanggar", "rambu">>, <<"pidana", "tabrak", "lari">>,
     <<"ayat", "berapa">>, <<"kamera", "etle">>, <<" ", "pasal", " ">>,
     <<"uu", "no", "22">>, <<"helm", "motor">>}

\* predict_intent(question)
PredictIntent ==
    \E question \in IntentQuestions, prediction \in Predictions :
        /\ icall' = [question |-> question, loaded |-> INTENT_MODEL,
                     prediction |-> prediction,
                     ret |-> predict_intent(question, INTENT_MODEL,
                                            prediction)]
        /\ UNCHANGED <<now, cacheVars, rateVars, indexVars, searchVars,
                       genVars, threadVars, chatVars, buildVars, histVars,
                       authVars>>

IntentNext == PredictIntent

SpecIntent == InitChat /\ [][IntentNext]_vars

\* the question of the call holds one of the rule-trigger phrases
\* (hukum_keywords) once normalized
HasTrigger(q) ==
    \/ \E i \in DOMAIN q :
           q[i] \in {"pasal", "undang-undang", "denda", "sanksi", "pidana",
                     "ayat", "tilang", "etle"}
    \/ \E i \in 1..(Len(q) - 1) : q[i] = "uu" /\ q[i + 1] # " "

\* C21: a question whose normalized text contains a rule-trigger phrase
\* classifies as butuh_pasal, whatever the trained model would predict and
\* whether or not it is loaded.
C21_TriggerPhraseWins ==
    (icall.ret # "" /\ HasTrigger(icall.question)) =>
        icall.ret = "butuh_pasal"

\* a question with "pasal" classified while the model is loaded and would
\* predict tips_umum
C21_Witness ==
    /\ icall.question = <<"pasal", "helm", "motor", "apa">>
    /\ icall.loaded
    /\ icall.prediction = "tips_umum"
    /\ icall.ret = "butuh_pasal"

\* C22: predict_intent always returns a label; when no rule matches and the
\* trained model is absent or raises, the label is tips_umum.
C22_IntentNeverFails ==
    (icall.question # <<>> \/ icall.ret # "") =>
        /\ icall.ret \in {"butuh_pasal", "tips_umum"}
        /\ (/\ ~HasTrigger(icall.question)
            /\ (~icall.loaded \/ icall.prediction = "raise")) =>
               icall.ret = "tips_umum"

\* the trained model is loaded and raises on a question without a trigger
\* phrase
C22_Witness ==
    /\ icall.question = <<"tips", "berkendara", "motor", "malam">>
    /\ icall.loaded
    /\ icall.prediction = "raise"
    /\ icall.ret = "tips_umum"

-----------------------------------------------------------------------------
(* The messages of a session read back: fetch_history_text, which _chat_impl *)
(* calls for the prompt, and GET /chat-sessions/{id}. Row i of messages is  *)
(* the row with the i-th id.                                                *)

MAX_HISTORY_TURNS == 8

\* ChatMessage.created_at, server_default=func.now(): the time of the
\* transaction that inserted the row. The two rows of a request are inserted
\* by one commit and get one value; a later commit gets a later one. Rows
\* are committed in pairs, so row i is of commit (i + 1) \div 2.
created_at(i) == (i + 1) \div 2

\* the ids of the rows of a session
SessionRows(rows, session_id) ==
    {i \in DOMAIN rows : rows[i].session_id = session_id}

\* order_by(ChatMessage.created_at.desc()): every order the database may
\* return the rows in; rows of equal created_at come in either order
ByCreatedAtDesc(ids) ==
    {f \in [1..Cardinality(ids) -> ids] :
        /\ \A a, b \in DOMAIN f : (a # b) => f[a] # f[b]
        /\ \A a, b \in DOMAIN f :
              (a < b) => created_at(f[a]) >= created_at(f[b])}

\* list(reversed(msgs))
reversed(seq) == [i \in DOMAIN seq |-> seq[Len(seq) + 1 - i]]

\* the loop of fetch_history_text: a tagged part for every row with a text
HistoryParts(rows, ids) ==
    LET full == SelectSeq(ids, LAMBDA i : ~IsEmptyAnswer(rows[i].content))
    IN  [p \in DOMAIN full |->
            [id |-> full[p],
             tag |-> IF rows[full[p]].role = "user" THEN "User"
                     ELSE "Asisten",
             txt |-> rows[full[p]].content]]

\* fetch_history_text(db, session_id): the histories it may return
fetch_history_text(rows, session_id) ==
    {HistoryParts(rows,
                  reversed(SubSeq(f, 1, Min(Len(f), MAX_HISTORY_TURNS)))) :
        f \in ByCreatedAtDesc(SessionRows(rows, session_id))}

\* session_obj.messages, order_by ChatMessage.id, then
\* sorted(key=lambda m: m.created_at), a stable sort
SessionMessages(rows, session_id) ==
    LET ids == SessionRows(rows, session_id)
        rank(i) == 1 + Cardinality({j \in ids :
                        \/ created_at(j) < created_at(i)
                        \/ (created_at(j) = created_at(i) /\ j < i)})
    IN  [p \in 1..Cardinality(ids) |->
            LET i == CHOOSE i \in ids : rank(i) = p
            IN  [id |-> i, tag |-> rows[i].role, txt |-> rows[i].content]]

\* the chat requests of one user who goes on in the session or opens one
ReplayQuestions ==
    {<<"halo">>, <<"kena", "tilang">>, <<"pasal", "helm", "motor", "apa">>}

ReplayRequests ==
    [endpoint : {"chat"}, ip : ChatClients, question : ReplayQuestions,
     username : {<<"u1">>}, session_id : 0..MaxSessionId]

\* POST /chat; a request that gets to line 1238 fetches the history of its
\* session before it persists its own two messages
ChatReplay ==
    /\ chat_count < MaxChatRequests
    /\ \E request \in ReplayRequests :
         LET models == GEN_MODELS_of(GEN_MODEL, FALLBACK_MODELS)
             text == [n \in 1..MaxCalls(models) |->
                         [kind |-> "text", msg |-> {}]]
         IN  \E c \in Results(request, ChatEnv("tips_umum", FALSE, text),
                              Providers(models)) :
                /\ HandledState(request, c)
                /\ IF "embed" \in c.resp.did
                   THEN \E h \in fetch_history_text(messages,
                                                    c.resp.session_id) :
                            hist' = [op |-> "history",
                                     session_id |-> c.resp.session_id,
                                     status |-> 200, ret |-> h]
                   ELSE hist' = hist
                /\ UNCHANGED <<now, cacheVars, accepted, indexVars, sop,
                               rebuilds, genVars, threadVars, INTENT_MODEL,
                               buildVars, intentVars, authVars>>

\* GET /chat-sessions/{session_id}
SessionDetail ==
    \E session_id \in 1..(MaxSessionId + 1) :
        /\ hist' = IF session_id \in DOMAIN sessions
                   THEN [op |-> "detail", session_id |-> session_id,
                         status |-> 200,
                         ret |-> SessionMessages(messages, session_id)]
                   ELSE [op |-> "detail", session_id |-> session_id,
                         status |-> 404, ret |-> <<>>]
        /\ UNCHANGED <<now, cacheVars, rateVars, indexVars, searchVars,
                       genVars, threadVars, chatVars, buildVars, intentVars,
                       authVars>>

ReplayNext == ChatReplay \/ SessionDetail

SpecReplay == InitChat /\ [][ReplayNext]_vars

\* C24: the messages of a session are replayed in creation order, in the
\* history fetched for the prompt and in the session detail: messages of
\* earlier requests come before those of later requests, and the user
\* message of a request comes before its assistant reply.
C24_ReplayInCreationOrder ==
    (hist.op \in {"history", "detail"}) =>
        \A a, b \in DOMAIN hist.ret :
            (a < b) => hist.ret[a].id < hist.ret[b].id

-----------------------------------------------------------------------------
(* Password reset: forgot_password issues a token, reset_password spends    *)
(* it. The endpoints are plain functions, which the server runs in worker   *)
(* threads, each with a database session of its own; the engine is created  *)
(* with the default isolation level, so a request reads the rows committed  *)
(* when its query runs and writes at its commit.                            *)

Emails == {"u1@mail", "nobody@mail"}
NewPasswords == {"p1", "p2"}

ResetTick ==
    /\ now < MaxResetClock
    /\ now' = now + 1
    /\ UNCHANGED <<authVars, outsideAuth>>

\* delete the unused tokens of the user, add a fresh one
IssueToken(rows, user_id, seq, t) ==
    Append(SelectSeq(rows, LAMBDA r : ~(r.user_id = user_id /\ ~r.used)),
           [id |-> seq + 1, user_id |-> user_id, token |-> seq + 1,
            expires_at |-> t + RESET_TTL, used |-> FALSE])

\* POST /auth/forgot-password
ForgotPassword ==
    \E email \in Emails :
        /\ token_seq < MaxTokens
        /\ LET found == {i \in DOMAIN users : users[i].email = email} IN
           IF found # {}
           THEN /\ reset_tokens' =
                     IssueToken(reset_tokens,
                                users[CHOOSE i \in found : TRUE].id,
                                token_seq, now)
                /\ token_seq' = token_seq + 1
           ELSE UNCHANGED <<reset_tokens, token_seq>>
        /\ UNCHANGED <<now, users, rst, reset_log, outsideAuth>>

\* the requests begun so far
ResetsBegun ==
    Len(reset_log) + Cardinality({t \in ResetThreads : rst[t].pc # "idle"})

\* a response of reset_password
ResetAnswer(t, token, status, at, expires_at) ==
    [thread |-> t, token |-> token, status |-> status, at |-> at,
     expires_at |-> expires_at]

\* reset_password up to its writes: the token row that is not used, the
\* expiry test and the user row
ResetBegin(t) ==
    \E token \in 1..MaxTokens, new_password \in NewPasswords :
        /\ rst[t].pc = "idle"
        /\ ResetsBegun < MaxResets
        /\ LET found == {i \in DOMAIN reset_tokens :
                            /\ reset_tokens[i].token = token
                            /\ ~reset_tokens[i].used}
               token_obj == reset_tokens[CHOOSE i \in found : TRUE]
               user == {i \in DOMAIN users : users[i].id = token_obj.user_id}
           IN  IF found = {}
               THEN /\ reset_log' = Append(reset_log,
                                      ResetAnswer(t, token, 400, now, 0))
                    /\ UNCHANGED rst
               ELSE IF token_obj.expires_at < now \/ user = {}
               THEN /\ reset_log' = Append(reset_log,
                                      ResetAnswer(t, token, 400, now,
                                                  token_obj.expires_at))
                    /\ UNCHANGED rst
               ELSE /\ rst' = [rst EXCEPT ![t] =
                                 [pc |-> "checked", token |-> token,
                                  new_password |-> new_password,
                                  token_id |-> token_obj.id,
                                  user_id |-> token_obj.user_id,
                                  at |-> now,
                                  expires_at |-> token_obj.expires_at]]
                    /\ UNCHANGED reset_log
        /\ UNCHANGED <<now, users, reset_tokens, token_seq, outsideAuth>>

\* reset_password, db.commit(): the two rows are updated by primary key. An
\* update of a row that is gone raises and the transaction is rolled back.
ResetCommit(t) ==
    /\ rst[t].pc = "checked"
    /\ IF \E i \in DOMAIN reset_tokens : reset_tokens[i].id = rst[t].token_id
       THEN /\ users' = [i \in DOMAIN users |->
                           IF users[i].id = rst[t].user_id
                           THEN [users[i] EXCEPT !.hashed_password =
                                    hash_password(rst[t].new_password)]
                           ELSE users[i]]
            /\ reset_tokens' = [i \in DOMAIN reset_tokens |->
                                  IF reset_tokens[i].id = rst[t].token_id
                                  THEN [reset_tokens[i] EXCEPT !.used = TRUE]
                                  ELSE reset_tokens[i]]
            /\ reset_log' = Append(reset_log,
                                   ResetAnswer(t, rst[t].token, 200, rst[t].at,
                                               rst[t].expires_at))
       ELSE /\ UNCHANGED <<users, reset_tokens>>
            /\ reset_log' = Append(reset_log,
                                   ResetAnswer(t, rst[t].token, 500, rst[t].at,
                                               rst[t].expires_at))
    /\ rst' = [rst EXCEPT ![t] = ResetIdle]
    /\ UNCHANGED <<now, token_seq, outsideAuth>>

AuthNext ==
    \/ ResetTick
    \/ ForgotPassword
    \/ \E t \in ResetThreads : ResetBegin(t)
    \/ \E t \in ResetThreads : ResetCommit(t)

SpecAuth == InitChat /\ [][AuthNext]_vars

\* C27: a reset token changes a password at most once, also when two
\* reset_password requests with the token run at the same time, and a
\* token that has expired is rejected.
C27_TokenSpentOnce ==
    /\ \A token \in 1..MaxTokens :
          Cardinality({i \in DOMAIN reset_log :
                          /\ reset_log[i].token = token
                          /\ reset_log[i].status = 200}) <= 1
    /\ \A i \in DOMAIN reset_log :
          (reset_log[i].status = 200) =>
              reset_log[i].expires_at >= reset_log[i].at


====
